---- MODULE Spec2Model ----
(***************************************************************************)
(* A model of the route / itinerary pipeline of the MapApp component       *)
(* (src/map_app.ts): map queries and their asynchronous geocode and        *)
(* directions responses, the itinerary data built from a route, the        *)
(* colour spectrum, the fuel-cost recalculation and the route animation    *)
(* loop.                                                                   *)
(*                                                                         *)
(* JavaScript numbers that are not integers (fuel costs, animation delays) *)
(* are carried as exact fractions [n, d]; a fraction with d = 0 stands for *)
(* a non-finite value (n = 1: Infinity, n = 0: NaN).  Rounding of IEEE     *)
(* doubles is not represented.                                             *)
(*                                                                         *)
(* A CSS colour string "rgb(r, g, b)" is carried as the triple <<r, g, b>>.*)
(* Dates, hotel names, addresses, durations, bounds and the camera moves of *)
(* the route handlers are passed through by the code unchanged and are not *)
(* part of the model.                                                      *)
(*                                                                         *)
(* The map tour (saved views, drag-reordering, export and import,          *)
(* playback), the chat (sendMessageAction and the send-message handler of  *)
(* src/send_message_handler.ts), the markdown-table parser and the         *)
(* formatting of durations (a string is the sequence of its characters     *)
(* there) are modelled as well.  A JSON value is a tagged record: a number *)
(* a fraction [n, d], a string [str], a boolean [bool], an array [items],  *)
(* null, undefined, an object the record of its properties.                *)
(***************************************************************************)
EXTENDS Integers, Sequences, FiniteSets, Bags, TLC

-----------------------------------------------------------------------------
(* Bounds of the model *)

\* Largest number of legs of a route (a query has at most MaxLegs + 1 stops).
MaxLegs == 2
\* Largest number of handleMapQuery calls after loadMap's own.
MaxQueries == 1
\* The same, where the queries take every shape of the optional parameters.
MaxItineraryQueries == 1
\* The same, where view-location queries follow one another.
MaxLocationQueries == 2
\* Cap of currentAnimationId for the slider (the code's counter is unbounded).
MaxAnimationId == 3
\* Largest number of chat messages.
MaxMessages == 1
\* Largest argument of _generateColorSpectrum tried on its own.
MaxSteps == 60
\* The most alert() calls, hence imports that end in one.
MaxAlerts == 2
\* The most files exportTour writes.
MaxDownloads == 1
\* Cap of nextViewId for Save View (the code's counter is unbounded).
MaxViewId == 3
\* The most flyToView calls of the playbacks.
MaxFlights == 4
\* The most lines of a text given to _parseItineraryTable on its own.
MaxLines == 5
\* The most chat messages the user sends.
MaxTurns == 2
\* The most whole days of a duration given to _formatTotalDuration on its own.
MaxDays == 2

-----------------------------------------------------------------------------
(* Program constants *)

\* @state() private mpg = 20
DefaultMpg == 20
\* @state() private animationSpeed = 75
DefaultAnimationSpeed == 75
\* the slider position that means "stopped"
StoppedSpeed == 100
\* 0% speed: 2s per leg
MsPerLegSlowest == 2000
\* 99% speed: 1s in total
MinTotalDuration == 1000
\* the divisor of the linear interpolation over [0, 99]
SpeedRange == 99
\* @state() private playbackDelay = 3
DefaultPlaybackDelay == 3
\* @state() private playbackFlyoverTime = 2, and data.playbackFlyoverTime ?? 2
DefaultFlyoverTime == 2

-----------------------------------------------------------------------------
(* Values *)

Undefined == [undefined |-> TRUE]
Null == [null |-> TRUE]

Abs(x) == IF x < 0 THEN -x ELSE x

RECURSIVE GCD(_, _)
GCD(a, b) == IF b = 0 THEN a ELSE GCD(b, a % b)

\* The fraction n/d in lowest terms with a positive denominator (d # 0).
Rat(n, d) ==
  LET g == GCD(Abs(n), Abs(d))
      s == IF d < 0 THEN -1 ELSE 1
  IN  [n |-> s * (n \div g), d |-> s * (d \div g)]

IsFinite(x) == x.d # 0
Infinity == [n |-> 1, d |-> 0]
NaN == [n |-> 0, d |-> 0]
Zero == [n |-> 0, d |-> 1]
Num(k) == [n |-> k, d |-> 1]

\* x + y on JavaScript numbers (no negative infinity arises in this model).
NumAdd(x, y) ==
  IF x = NaN \/ y = NaN THEN NaN
  ELSE IF x = Infinity \/ y = Infinity THEN Infinity
  ELSE LET g == GCD(x.d, y.d)
       IN  Rat(x.n * (y.d \div g) + y.n * (x.d \div g), (x.d \div g) * y.d)

NumNeg(x) == IF IsFinite(x) THEN [n |-> -x.n, d |-> x.d] ELSE x

\* x * y on JavaScript numbers, for finite y.
NumMul(x, y) ==
  IF x = NaN THEN NaN
  ELSE IF x = Infinity THEN (IF y.n = 0 THEN NaN ELSE Infinity)
  ELSE LET g1 == GCD(Abs(x.n), y.d)
           g2 == GCD(Abs(y.n), x.d)
       IN  IF x.n = 0 \/ y.n = 0 THEN Zero
           ELSE Rat((x.n \div g1) * (y.n \div g2), (x.d \div g2) * (y.d \div g1))

\* x / y on JavaScript numbers, for finite x >= 0 and finite y >= 0.
NumDiv(x, y) ==
  IF y.n = 0 THEN (IF x.n = 0 THEN NaN ELSE Infinity)
  ELSE NumMul(x, [n |-> y.d, d |-> y.n])

\* x <= y for finite x, y.
NumLeq(x, y) == x.n * y.d <= y.n * x.d

RECURSIVE SumSeq(_)
SumSeq(s) == IF s = <<>> THEN 0 ELSE s[1] + SumSeq(Tail(s))

\* Array.prototype.reduce((sum, x) => sum + x, 0) over JavaScript numbers.
RECURSIVE NumSum(_)
NumSum(s) ==
  IF s = <<>> THEN Zero ELSE NumAdd(NumSum(SubSeq(s, 1, Len(s) - 1)), s[Len(s)])

-----------------------------------------------------------------------------
(* _generateColorSpectrum *)

Green == <<0, 255, 0>>
Blue == <<0, 0, 255>>
Red == <<255, 0, 0>>

\* Math.round(a + (b - a) * (i / m)) for integers a, b, i and m > 0:
\* Math.round(x) is floor(x + 1/2).
RoundLerp(a, b, i, m) == (2 * (a * m + (b - a) * i) + m) \div (2 * m)

\* The colour a fraction i/m of the way from colour `from` to colour `to`.
Interpolate(from, to, i, m) ==
  << RoundLerp(from[1], to[1], i, m),
     RoundLerp(from[2], to[2], i, m),
     RoundLerp(from[3], to[3], i, m) >>

\* A midpoint taken from the number of colours, not of intervals.
HalfOfSteps(steps) == steps \div 2

\* Math.floor((steps - 1) / 2)
MidPointIndex(steps) == (steps - 1) \div 2

\* A second half that forgets the colour the first half ended on.
StepsAfterMidPoint(steps) == steps - MidPointIndex(steps)

\* steps - 1 - midPointIndex
SecondHalfSteps(steps) == steps - 1 - MidPointIndex(steps)

GenerateColorSpectrum(steps) ==
  IF steps <= 1 THEN << Green >>
  ELSE
    LET midPointIndex == MidPointIndex(steps)
        \* first half: i = 0 .. midPointIndex, fraction 1.0 when midPointIndex = 0
        firstHalf == [k \in 1..(midPointIndex + 1) |->
                        IF midPointIndex = 0
                        THEN Interpolate(Green, Blue, 1, 1)
                        ELSE Interpolate(Green, Blue, k - 1, midPointIndex)]
        secondHalfSteps == SecondHalfSteps(steps)
        \* second half: i = 1 .. secondHalfSteps
        secondHalf == [k \in 1..secondHalfSteps |->
                        Interpolate(Blue, Red, k, secondHalfSteps)]
    IN  firstHalf \o secondHalf

\* _cssColorToRgb on a string the spectrum produced: the three channels
\* parsed back, alpha 255.
CssColorToRgb(cssColor) ==
  [r |-> cssColor[1], g |-> cssColor[2], b |-> cssColor[3], a |-> 255]

-----------------------------------------------------------------------------
(* State *)

VARIABLES
  mapInitialized,          \* @state() mapInitialized
  mapError,                \* @state() mapError, TRUE when the text is not ''
  currentAnimationId,      \* @state() private currentAnimationId
  animationSpeed,          \* @state() private animationSpeed
  mpg,                     \* @state() private mpg
  activeRightSidebarTab,   \* @state() private activeRightSidebarTab
  itineraryData,           \* @state() itineraryData, Null or a record
  messages,                \* @state() messages: the roles of the chat turns
  marker,                  \* private marker, Undefined or a marker element
  routePolylines,          \* private routePolylines
  stopMarkers,             \* private stopMarkers
  backgroundRoutePolyline, \* private backgroundRoutePolyline
  mapChildren,             \* the elements appended to <gmp-map-3d>, a bag
  loops,                   \* the _runAnimationLoop calls suspended at their await, a bag
  geocodePending,          \* the geocoder.geocode calls not answered yet, a bag
  routePending,            \* the directionsService.route calls not answered yet, a bag
  queries,                 \* the MapParams handleMapQuery was called with, in call order
  chatState,               \* @state() chatState
  sendMessageHandler,      \* sendMessageHandler?: CallableFunction, TRUE when installed
  handlerCalls,            \* the sendMessageHandler calls that have not returned yet, a bag
  inputMessage,            \* @state() inputMessage, a text as its lines
  savedViews,              \* @state() private savedViews
  nextViewId,              \* @state() private nextViewId
  playbackDelay,           \* @state() private playbackDelay
  playbackFlyoverTime,     \* @state() private playbackFlyoverTime
  loopTour,                \* @state() private loopTour
  isPlayingTour,           \* @state() private isPlayingTour
  isSavingView,            \* @state() private isSavingView
  draggedItemId,           \* @state() private draggedItemId, <<>> for null, <<id>> otherwise
  editingViewId,           \* @state() private editingViewId, <<>> for null, <<id>> otherwise
  addStopsToTourToggle,    \* @state() private addStopsToTourToggle
  addLegsToTourToggle,     \* @state() private addLegsToTourToggle
  tourPlayers,             \* the playTour calls suspended at an await, a bag
  flyToViewCalls,          \* the views flyToView was called with, in call order
  cameraFlights,           \* the cameras flyToView has flown to, in order
  savePending,             \* the reverse geocode calls of saveCurrentView not answered yet, a bag
  downloads,               \* the files exportTour has written, in order
  alerts,                  \* the texts of the alert() calls, in order
  steps,                   \* an argument of _generateColorSpectrum called on its own
  colors,                  \* the result of that call, <<>> before it
  markdown,                \* an argument of _parseItineraryTable called on its own
  parsed,                  \* the result of that call, <<>> before it
  totalSeconds,            \* an argument of _formatTotalDuration called on its own
  formatted                \* the result of that call, <<>> before it

appVars == << mapInitialized, mapError, currentAnimationId, animationSpeed, mpg,
              activeRightSidebarTab, itineraryData, messages, marker,
              routePolylines, stopMarkers, backgroundRoutePolyline, mapChildren,
              loops, geocodePending, routePending, queries,
              chatState, sendMessageHandler, handlerCalls, inputMessage,
              savedViews, nextViewId, playbackDelay, playbackFlyoverTime,
              loopTour, isPlayingTour, isSavingView, draggedItemId,
              editingViewId, addStopsToTourToggle, addLegsToTourToggle,
              tourPlayers, flyToViewCalls, cameraFlights, savePending,
              downloads, alerts >>

\* The variables of the functions called on their own.
callVars == << steps, colors, markdown, parsed, totalSeconds, formatted >>

vars == << appVars, callVars >>

\* The component and its pending work as one record, for the operators below.
This ==
  [ mapInitialized |-> mapInitialized,
    mapError |-> mapError,
    currentAnimationId |-> currentAnimationId,
    animationSpeed |-> animationSpeed,
    mpg |-> mpg,
    activeRightSidebarTab |-> activeRightSidebarTab,
    itineraryData |-> itineraryData,
    messages |-> messages,
    marker |-> marker,
    routePolylines |-> routePolylines,
    stopMarkers |-> stopMarkers,
    backgroundRoutePolyline |-> backgroundRoutePolyline,
    mapChildren |-> mapChildren,
    loops |-> loops,
    geocodePending |-> geocodePending,
    routePending |-> routePending,
    queries |-> queries,
    chatState |-> chatState,
    sendMessageHandler |-> sendMessageHandler,
    handlerCalls |-> handlerCalls,
    inputMessage |-> inputMessage,
    savedViews |-> savedViews,
    nextViewId |-> nextViewId,
    playbackDelay |-> playbackDelay,
    playbackFlyoverTime |-> playbackFlyoverTime,
    loopTour |-> loopTour,
    isPlayingTour |-> isPlayingTour,
    isSavingView |-> isSavingView,
    draggedItemId |-> draggedItemId,
    editingViewId |-> editingViewId,
    addStopsToTourToggle |-> addStopsToTourToggle,
    addLegsToTourToggle |-> addLegsToTourToggle,
    tourPlayers |-> tourPlayers,
    flyToViewCalls |-> flyToViewCalls,
    cameraFlights |-> cameraFlights,
    savePending |-> savePending,
    downloads |-> downloads,
    alerts |-> alerts ]

\* The next state is the record a.
Becomes(a) ==
  /\ mapInitialized' = a.mapInitialized
  /\ mapError' = a.mapError
  /\ currentAnimationId' = a.currentAnimationId
  /\ animationSpeed' = a.animationSpeed
  /\ mpg' = a.mpg
  /\ activeRightSidebarTab' = a.activeRightSidebarTab
  /\ itineraryData' = a.itineraryData
  /\ messages' = a.messages
  /\ marker' = a.marker
  /\ routePolylines' = a.routePolylines
  /\ stopMarkers' = a.stopMarkers
  /\ backgroundRoutePolyline' = a.backgroundRoutePolyline
  /\ mapChildren' = a.mapChildren
  /\ loops' = a.loops
  /\ geocodePending' = a.geocodePending
  /\ routePending' = a.routePending
  /\ queries' = a.queries
  /\ chatState' = a.chatState
  /\ sendMessageHandler' = a.sendMessageHandler
  /\ handlerCalls' = a.handlerCalls
  /\ inputMessage' = a.inputMessage
  /\ savedViews' = a.savedViews
  /\ nextViewId' = a.nextViewId
  /\ playbackDelay' = a.playbackDelay
  /\ playbackFlyoverTime' = a.playbackFlyoverTime
  /\ loopTour' = a.loopTour
  /\ isPlayingTour' = a.isPlayingTour
  /\ isSavingView' = a.isSavingView
  /\ draggedItemId' = a.draggedItemId
  /\ editingViewId' = a.editingViewId
  /\ addStopsToTourToggle' = a.addStopsToTourToggle
  /\ addLegsToTourToggle' = a.addLegsToTourToggle
  /\ tourPlayers' = a.tourPlayers
  /\ flyToViewCalls' = a.flyToViewCalls
  /\ cameraFlights' = a.cameraFlights
  /\ savePending' = a.savePending
  /\ downloads' = a.downloads
  /\ alerts' = a.alerts

\* The next state's counterpart for a state: the state is the record a.
Is(a) ==
  /\ mapInitialized = a.mapInitialized
  /\ mapError = a.mapError
  /\ currentAnimationId = a.currentAnimationId
  /\ animationSpeed = a.animationSpeed
  /\ mpg = a.mpg
  /\ activeRightSidebarTab = a.activeRightSidebarTab
  /\ itineraryData = a.itineraryData
  /\ messages = a.messages
  /\ marker = a.marker
  /\ routePolylines = a.routePolylines
  /\ stopMarkers = a.stopMarkers
  /\ backgroundRoutePolyline = a.backgroundRoutePolyline
  /\ mapChildren = a.mapChildren
  /\ loops = a.loops
  /\ geocodePending = a.geocodePending
  /\ routePending = a.routePending
  /\ queries = a.queries
  /\ chatState = a.chatState
  /\ sendMessageHandler = a.sendMessageHandler
  /\ handlerCalls = a.handlerCalls
  /\ inputMessage = a.inputMessage
  /\ savedViews = a.savedViews
  /\ nextViewId = a.nextViewId
  /\ playbackDelay = a.playbackDelay
  /\ playbackFlyoverTime = a.playbackFlyoverTime
  /\ loopTour = a.loopTour
  /\ isPlayingTour = a.isPlayingTour
  /\ isSavingView = a.isSavingView
  /\ draggedItemId = a.draggedItemId
  /\ editingViewId = a.editingViewId
  /\ addStopsToTourToggle = a.addStopsToTourToggle
  /\ addLegsToTourToggle = a.addLegsToTourToggle
  /\ tourPlayers = a.tourPlayers
  /\ flyToViewCalls = a.flyToViewCalls
  /\ cameraFlights = a.cameraFlights
  /\ savePending = a.savePending
  /\ downloads = a.downloads
  /\ alerts = a.alerts

\* The component after construction: the field initialisers of MapApp, an
\* empty map, nothing pending.
Constructed ==
  [ mapInitialized |-> FALSE,
    mapError |-> FALSE,
    currentAnimationId |-> 0,
    animationSpeed |-> DefaultAnimationSpeed,
    mpg |-> DefaultMpg,
    activeRightSidebarTab |-> "itinerary",
    itineraryData |-> Null,
    messages |-> <<>>,
    marker |-> Undefined,
    routePolylines |-> <<>>,
    stopMarkers |-> <<>>,
    backgroundRoutePolyline |-> Undefined,
    mapChildren |-> EmptyBag,
    loops |-> EmptyBag,
    geocodePending |-> EmptyBag,
    routePending |-> EmptyBag,
    queries |-> <<>>,
    chatState |-> "IDLE",
    sendMessageHandler |-> FALSE,
    handlerCalls |-> EmptyBag,
    inputMessage |-> <<>>,
    savedViews |-> <<>>,
    nextViewId |-> Num(0),
    playbackDelay |-> Num(DefaultPlaybackDelay),
    playbackFlyoverTime |-> Num(DefaultFlyoverTime),
    loopTour |-> FALSE,
    isPlayingTour |-> FALSE,
    isSavingView |-> FALSE,
    draggedItemId |-> <<>>,
    editingViewId |-> <<>>,
    addStopsToTourToggle |-> FALSE,
    addLegsToTourToggle |-> FALSE,
    tourPlayers |-> EmptyBag,
    flyToViewCalls |-> <<>>,
    cameraFlights |-> <<>>,
    savePending |-> EmptyBag,
    downloads |-> <<>>,
    alerts |-> <<>> ]

Init ==
  /\ Is(Constructed)
  /\ steps = 0
  /\ colors = <<>>
  /\ markdown = <<>>
  /\ parsed = <<>>
  /\ totalSeconds = 0
  /\ formatted = <<>>

-----------------------------------------------------------------------------
(* Map elements *)

One(e) == SetToBag({e})

\* element.remove(): one child of the map less, nothing when it is not on the map.
RemoveChild(children, e) == children (-) One(e)

\* array.forEach((x) => x.remove())
RECURSIVE RemoveChildren(_, _)
RemoveChildren(children, elements) ==
  IF elements = <<>> THEN children
  ELSE RemoveChildren(RemoveChild(children, Head(elements)), Tail(elements))

\* map.appendChild(x) for every x of an array, in order
RECURSIVE AppendChildren(_, _)
AppendChildren(children, elements) ==
  IF elements = <<>> THEN children
  ELSE AppendChildren(children (+) One(Head(elements)), Tail(elements))

\* this.messages = [...this.messages, div]
AddMessage(a, role) == [a EXCEPT !.messages = Append(@, role)]

ClearMapElements(a) ==
  LET c1 == IF a.marker # Undefined
            THEN RemoveChild(a.mapChildren, a.marker) ELSE a.mapChildren
      c2 == RemoveChildren(c1, a.routePolylines)
      c3 == RemoveChildren(c2, a.stopMarkers)
      c4 == IF a.backgroundRoutePolyline # Undefined
            THEN RemoveChild(c3, a.backgroundRoutePolyline) ELSE c3
  IN  [a EXCEPT !.currentAnimationId = @ + 1,
                !.marker = Undefined,
                !.routePolylines = <<>>,
                !.stopMarkers = <<>>,
                !.backgroundRoutePolyline = Undefined,
                !.itineraryData = Null,
                !.mapChildren = c4]

\* The Polyline3DElement _drawLegPolyline builds for a leg.
LegPolyline(rawLegData, color) ==
  [kind |-> "polyline", coordinates |-> << rawLegData >>, altitude |-> 5,
   strokeColor |-> color, strokeWidth |-> 10]

\* _drawLegPolyline: the element is appended to the map and pushed on
\* routePolylines (Polyline3DElement is set whenever a route exists).
DrawLegPolyline(a, rawLegData, color) ==
  [a EXCEPT !.mapChildren = @ (+) One(LegPolyline(rawLegData, color)),
            !.routePolylines = Append(@, LegPolyline(rawLegData, color))]

\* The body of _drawStaticRoute's forEach for legs i..n of itineraryData.
RECURSIVE DrawStaticLegs(_, _)
DrawStaticLegs(a, i) ==
  IF i > Len(a.itineraryData.legs) THEN a
  ELSE LET leg == a.itineraryData.legs[i]
           drawn == DrawLegPolyline(a, leg.rawLegData, leg.color)
       IN  DrawStaticLegs(
             [drawn EXCEPT !.itineraryData.legs[i].polyline =
                              LegPolyline(leg.rawLegData, leg.color)],
             i + 1)

\* A static route drawn over whatever the animation had drawn.
DrawStaticRouteOverOld(a) ==
  IF a.itineraryData = Null THEN a ELSE DrawStaticLegs(a, 1)

DrawStaticRoute(a) ==
  IF a.itineraryData = Null THEN a
  ELSE DrawStaticLegs(
         [a EXCEPT !.mapChildren = RemoveChildren(@, a.routePolylines),
                   !.routePolylines = <<>>],
         1)

-----------------------------------------------------------------------------
(* Route animation *)

\* An interpolation over a slider range of 100.
TotalDurationPerCent(legCount, speed) ==
  LET maxTotalDuration == MsPerLegSlowest * legCount
  IN  NumAdd(Num(maxTotalDuration),
             NumNeg(NumMul(Rat(speed, StoppedSpeed),
                           Num(maxTotalDuration - MinTotalDuration))))

\* maxTotalDuration - (speed / 99) * (maxTotalDuration - minTotalDuration)
TotalDuration(legCount, speed) ==
  LET maxTotalDuration == MsPerLegSlowest * legCount
  IN  NumAdd(Num(maxTotalDuration),
             NumNeg(NumMul(Rat(speed, SpeedRange),
                           Num(maxTotalDuration - MinTotalDuration))))

\* legCount > 0 ? totalDuration / legCount : 0
DelayPerLeg(legCount, speed) ==
  IF legCount > 0 THEN NumDiv(TotalDuration(legCount, speed), Num(legCount))
  ELSE Zero

\* What a loop reads of the leg objects it was started with.
LegsData(legs) ==
  [i \in DOMAIN legs |-> [rawLegData |-> legs[i].rawLegData, color |-> legs[i].color]]

\* A loop that looks at the slider only.
CancelledBySliderOnly(a, l) == a.animationSpeed = StoppedSpeed

\* animationId !== this.currentAnimationId || this.animationSpeed === 100
Cancelled(a, l) ==
  l.animationId # a.currentAnimationId \/ a.animationSpeed = StoppedSpeed

RECURSIVE RunAnimationLoop(_, _, _, _, _)
RECURSIVE LoopFrom(_, _)

\* The for loop of _runAnimationLoop from leg l.next on, to its next await (the
\* call is then suspended: l joins loops) or to its return.  After the last
\* leg the loop repeats itself.  `aliased` tells whether the leg objects of
\* the loop are still those of this.itineraryData.legs.
LoopFrom(a, l) ==
  IF l.next > Len(l.legsData)
  THEN IF l.animationId = a.currentAnimationId /\ a.animationSpeed < StoppedSpeed
       THEN RunAnimationLoop(a, l.animationId, l.legsData, l.delayPerLeg, l.aliased)
       ELSE a
  ELSE IF Cancelled(a, l) THEN a
  ELSE LET leg == l.legsData[l.next]
           drawn == DrawLegPolyline(a, leg.rawLegData, leg.color)
           kept == IF l.aliased /\ drawn.itineraryData # Null
                   THEN [drawn EXCEPT !.itineraryData.legs[l.next].polyline =
                                         LegPolyline(leg.rawLegData, leg.color)]
                   ELSE drawn
       IN  [kept EXCEPT !.loops = @ (+) One([l EXCEPT !.next = @ + 1])]

RunAnimationLoop(a, animationId, legsData, delayPerLeg, aliased) ==
  IF animationId # a.currentAnimationId \/ a.animationSpeed = StoppedSpeed
  THEN a
  ELSE LoopFrom(
         [a EXCEPT !.mapChildren = RemoveChildren(@, a.routePolylines),
                   !.routePolylines = <<>>],
         [animationId |-> animationId, legsData |-> legsData,
          delayPerLeg |-> delayPerLeg, aliased |-> aliased, next |-> 1])

StartAnimation(a) ==
  IF a.itineraryData = Null THEN a
  ELSE IF Len(a.itineraryData.legs) = 0 THEN a
  ELSE IF a.animationSpeed >= StoppedSpeed THEN DrawStaticRoute(a)
  ELSE LET legCount == Len(a.itineraryData.legs)
       IN  RunAnimationLoop(a, a.currentAnimationId, LegsData(a.itineraryData.legs),
                            DelayPerLeg(legCount, a.animationSpeed), TRUE)

\* _stopAnimation has no caller in the component.
StopAnimation(a) ==
  DrawStaticRoute([a EXCEPT !.currentAnimationId = @ + 1])

UpdateRouteAnimation(a) ==
  IF a.itineraryData = Null THEN a
  ELSE LET b == [a EXCEPT !.currentAnimationId = @ + 1]
       IN  IF b.animationSpeed = StoppedSpeed THEN DrawStaticRoute(b)
           ELSE StartAnimation(b)

HandleAnimationSpeedChange(a, value) ==
  UpdateRouteAnimation([a EXCEPT !.animationSpeed = value])

\* The timer of a suspended loop fires: the loop goes on after its await.
ResumeLoop(a, l) == LoopFrom([a EXCEPT !.loops = @ (-) One(l)], l)

-----------------------------------------------------------------------------
(* Fuel costs *)

\* METERS_TO_MILES = 0.000621371
MetersToMiles == [n |-> 621371, d |-> 1000000000]
\* DEFAULT_GAS_PRICE_PER_GALLON = 3.5
GasPricePerGallon == [n |-> 7, d |-> 2]

\* (distanceMiles / mpg) * DEFAULT_GAS_PRICE_PER_GALLON
FuelCostOf(distanceValue, milesPerGallon) ==
  NumMul(NumDiv(NumMul(Num(distanceValue), MetersToMiles), Num(milesPerGallon)),
         GasPricePerGallon)

\* The fuel cost _handleDirections gives a leg (no test of mpg).
LegFuelCost(distanceValue, selectedTravelMode, milesPerGallon) ==
  IF selectedTravelMode = "DRIVING" THEN FuelCostOf(distanceValue, milesPerGallon)
  ELSE Zero

\* The fuel cost _recalculateFuelCosts gives a leg.
NewFuelCost(distanceValue, milesPerGallon) ==
  IF milesPerGallon > 0 THEN FuelCostOf(distanceValue, milesPerGallon) ELSE Zero

\* A suspended loop keeps the leg objects it was given.
Detach(l) == [l EXCEPT !.aliased = FALSE]

\* A recalculation of the legs that leaves the total as it was.
RecalculateLegsOnly(a) ==
  IF a.itineraryData = Null THEN a
  ELSE IF a.itineraryData.travelMode # "DRIVING" THEN a
  ELSE LET legs == a.itineraryData.legs
       IN  [a EXCEPT !.itineraryData.legs =
                        [i \in DOMAIN legs |->
                           [legs[i] EXCEPT !.fuelCost =
                              NewFuelCost(legs[i].distanceValue, a.mpg)]],
                     !.loops = BagOfAll(Detach, @)]

RecalculateFuelCosts(a) ==
  IF a.itineraryData = Null THEN a
  ELSE IF a.itineraryData.travelMode # "DRIVING" THEN a
  ELSE LET legs == a.itineraryData.legs
           updatedLegs == [i \in DOMAIN legs |->
                             [legs[i] EXCEPT !.fuelCost =
                                NewFuelCost(legs[i].distanceValue, a.mpg)]]
           totalFuelCost == NumSum([i \in DOMAIN legs |-> updatedLegs[i].fuelCost])
       IN  [a EXCEPT !.itineraryData.legs = updatedLegs,
                     !.itineraryData.totalFuelCost = totalFuelCost,
                     !.loops = BagOfAll(Detach, @)]

\* The @input handler of #mpgInput: parseFloat(value) || 0, then the recalculation.
HandleMpgInput(a, value) == RecalculateFuelCosts([a EXCEPT !.mpg = value])

-----------------------------------------------------------------------------
(* Map queries *)

\* A stop string is carried as its two parts: "name;;;query" as
\* [name, query], a plain string s as [name |-> s, query |-> s].
StopName(s) == s.name
StopQuery(s) == s.query

\* The label of the location marker: the query, cut to 27 characters and
\* '...' when it is longer than 30.
MarkerLabel(locationQuery) ==
  IF locationQuery.length > 30
  THEN [text |-> locationQuery.text, cut |-> 27, ellipsis |-> TRUE]
  ELSE [text |-> locationQuery.text, cut |-> locationQuery.length, ellipsis |-> FALSE]

\* The Marker3DElement _handleViewLocation builds; createdFor tells the
\* elements of different calls apart.
LocationMarker(request) ==
  [kind |-> "marker", position |-> request.address.text,
   label |-> MarkerLabel(request.address), createdFor |-> request.query]

\* The Marker3DElement _handleDirections builds for stop number `number`.
StopMarker(number, name, position, color) ==
  [kind |-> "marker", position |-> position,
   label |-> [number |-> number, text |-> name],
   style |-> [color |-> CssColorToRgb(color)]]

\* '#B0B0B0'
Gray == <<176, 176, 176>>

\* The gray Polyline3DElement under the coloured legs: the path of all legs.
BackgroundPolyline(route) ==
  [kind |-> "polyline", coordinates |-> route.legs, strokeColor |-> Gray,
   strokeWidth |-> 10]

\* The services and element classes loadMap sets are there.
MapReady(a) == a.mapInitialized

\* The number of the handleMapQuery call being handled.
QueryNumber(a) == Len(a.queries)

HandleViewLocation(a, locationQuery) ==
  IF ~MapReady(a)
  THEN IF ~a.mapError THEN AddMessage(a, "error") ELSE a
  ELSE LET cleared == ClearMapElements(a)
       IN  [cleared EXCEPT !.geocodePending =
              @ (+) One([address |-> locationQuery, query |-> QueryNumber(a)])]

\* The rest of _handleViewLocation once the geocoder has answered.
GeocodeAnswered(a, request, status) ==
  LET b == [a EXCEPT !.geocodePending = @ (-) One(request)]
  IN  IF status = "OK"
      THEN [b EXCEPT !.marker = LocationMarker(request),
                     !.mapChildren = @ (+) One(LocationMarker(request))]
      ELSE AddMessage(b, "error")

HandleDirections(a, params) ==
  IF ~MapReady(a)
  THEN IF ~a.mapError THEN AddMessage(a, "error") ELSE a
  ELSE LET cleared == ClearMapElements(a)
           stopsWithNames == params.stops
           request ==
             [animationId |-> cleared.currentAnimationId,
              stopQueries |-> [i \in DOMAIN stopsWithNames |-> StopQuery(stopsWithNames[i])],
              stopNames |-> [i \in DOMAIN stopsWithNames |-> StopName(stopsWithNames[i])],
              params |-> params,
              selectedTravelMode |->
                IF "travelMode" \in DOMAIN params THEN params.travelMode ELSE "DRIVING",
              query |-> QueryNumber(a)]
       IN  [cleared EXCEPT !.routePending = @ (+) One(request)]

\* accommodationCosts?.[index] for the 0-based index i - 1: <<cost>>, or <<>>
\* for undefined.
\* Costs aligned to the stops from the origin on.
CostOfStop(params, i) ==
  IF "accommodationCosts" \in DOMAIN params
       /\ (i + 1) \in DOMAIN params.accommodationCosts
  THEN << params.accommodationCosts[i + 1] >>
  ELSE <<>>

\* accommodationCosts?.[index]
CostAt(params, i) ==
  IF "accommodationCosts" \in DOMAIN params /\ i \in DOMAIN params.accommodationCosts
  THEN << params.accommodationCosts[i] >>
  ELSE <<>>

TotalAccommodationCost(params) ==
  IF "accommodationCosts" \in DOMAIN params THEN SumSeq(params.accommodationCosts)
  ELSE 0

\* Stops that take the colour of the leg leaving them, the last stop that
\* of the leg reaching it.
StopsColouredByNextLeg(request, route, spectrumColors) ==
  LET colorOf(k) == spectrumColors[IF k <= Len(route.legs) THEN k ELSE k - 1]
      locationOf(k) == IF k = 1 THEN route.legs[1].start_location
                       ELSE route.legs[k - 1].end_location
  IN  [k \in 1..(Len(route.legs) + 1) |->
         IF k = 1
         THEN [name |-> request.stopNames[1],
               location |-> locationOf(1),
               marker |-> StopMarker(1, request.stopNames[1], locationOf(1),
                                     colorOf(1)),
               color |-> colorOf(1)]
         ELSE [name |-> request.stopNames[k],
               accommodationCost |-> CostAt(request.params, k - 1),
               location |-> locationOf(k),
               marker |-> StopMarker(k, request.stopNames[k], locationOf(k),
                                     colorOf(k)),
               color |-> colorOf(k)]]

\* The stops of the itinerary: the origin, then the end of every leg.
ItineraryStops(request, route, spectrumColors) ==
  [k \in 1..(Len(route.legs) + 1) |->
     IF k = 1
     THEN [name |-> request.stopNames[1],
           location |-> route.legs[1].start_location,
           marker |-> StopMarker(1, request.stopNames[1],
                                 route.legs[1].start_location, spectrumColors[1]),
           color |-> spectrumColors[1]]
     ELSE [name |-> request.stopNames[k],
           accommodationCost |-> CostAt(request.params, k - 1),
           location |-> route.legs[k - 1].end_location,
           marker |-> StopMarker(k, request.stopNames[k],
                                 route.legs[k - 1].end_location, spectrumColors[k - 1]),
           color |-> spectrumColors[k - 1]]]

ItineraryLegs(request, route, spectrumColors, milesPerGallon) ==
  [i \in 1..Len(route.legs) |->
     [distanceValue |-> route.legs[i].distance,
      fuelCost |-> LegFuelCost(route.legs[i].distance, request.selectedTravelMode,
                               milesPerGallon),
      rawLegData |-> route.legs[i],
      color |-> spectrumColors[i],
      polyline |-> Undefined]]

\* The ItineraryData the callback builds from a successful route.  With no
\* leg the code leaves stops and legs empty.
NewItineraryData(request, route, milesPerGallon) ==
  LET spectrumColors == GenerateColorSpectrum(Len(route.legs))
      legs == IF Len(route.legs) > 0
              THEN ItineraryLegs(request, route, spectrumColors, milesPerGallon)
              ELSE <<>>
  IN  [stops |-> IF Len(route.legs) > 0
                 THEN ItineraryStops(request, route, spectrumColors) ELSE <<>>,
       legs |-> legs,
       totalDistance |-> SumSeq([i \in DOMAIN route.legs |-> route.legs[i].distance]),
       totalFuelCost |-> NumSum([i \in DOMAIN legs |-> legs[i].fuelCost]),
       totalAccommodationCost |-> TotalAccommodationCost(request.params),
       travelMode |-> request.selectedTravelMode]

\* A stale test that never fires.
NeverStale(a, request) == FALSE

\* if (animationId !== this.currentAnimationId) return; // Stale request
StaleRequest(a, request) == request.animationId # a.currentAnimationId

\* The callback of directionsService.route.
DirectionsAnswered(a, request, status, routes) ==
  LET b == [a EXCEPT !.routePending = @ (-) One(request)]
  IN  IF StaleRequest(b, request) THEN b
      ELSE IF status = "OK" /\ Len(routes) > 0
      THEN LET route == routes[1]
               data == NewItineraryData(request, route, b.mpg)
               markers == [k \in DOMAIN data.stops |-> data.stops[k].marker]
               c == [b EXCEPT !.itineraryData = data,
                              !.stopMarkers = @ \o markers,
                              !.backgroundRoutePolyline = BackgroundPolyline(route),
                              !.mapChildren = AppendChildren(@, markers)
                                                (+) One(BackgroundPolyline(route))]
           IN  UpdateRouteAnimation(c)
      ELSE AddMessage(b, "error")

HandleMapQuery(a, params) ==
  LET b == [a EXCEPT !.queries = Append(@, params)]
  IN  IF "location" \in DOMAIN params
      THEN HandleViewLocation(b, params.location)
      ELSE IF "stops" \in DOMAIN params /\ Len(params.stops) >= 2
      THEN HandleDirections([b EXCEPT !.activeRightSidebarTab = "itinerary"], params)
      ELSE b

-----------------------------------------------------------------------------
(* Inputs *)

\* The slider positions tried, 100 among them.
Speeds == {0, 50, SpeedRange, StoppedSpeed}

\* The values parseFloat(value) || 0 gives for the MPG field.
MpgValues == {0, 25}

\* Location queries: a short one and one longer than 30 characters.
Locations ==
  { [text |-> "Eiffel Tower", length |-> 12],
    [text |-> "a street address of more than thirty characters", length |-> 47] }

\* The n stop strings of the k-th query: plain strings, all different
\* ("<<k, i>>" for stop i).
StopsOf(k, n) ==
  [i \in 1..n |-> [name |-> ToString(<<k, i>>), query |-> ToString(<<k, i>>)]]

\* m accommodation costs, all different.
CostsOf(m) == [i \in 1..m |-> 100 + 15 * i]

\* DEFAULT_ITINERARY_JSON as loadMap passes it: stops, and one cost per stop
\* after the origin (cut to the model's MaxLegs + 1 stops).
DefaultParams(k) ==
  [stops |-> StopsOf(k, MaxLegs + 1), accommodationCosts |-> CostsOf(MaxLegs)]

\* Directions queries as the tool description asks for them: n stops, one
\* cost per stop after the origin, the travel mode left out.
RouteParams(k) ==
  { [stops |-> StopsOf(k, n), accommodationCosts |-> CostsOf(n - 1)] :
      n \in 2..(MaxLegs + 1) }

\* Directions queries of n stops with the costs absent, one short, one per
\* stop after the origin, or one too many, and the travel mode absent or
\* WALKING.
ItineraryParamsOf(k, n) ==
  { p @@ c @@ [stops |-> StopsOf(k, n)] :
      c \in {<<>>} \cup {[accommodationCosts |-> CostsOf(m)] : m \in (n - 2)..n},
      p \in {<<>>, [travelMode |-> "WALKING"]} }

ItineraryParams(k) == UNION {ItineraryParamsOf(k, n) : n \in 2..(MaxLegs + 1)}

\* A route the directions service answers a request with: a leg per stop
\* after the origin, leg i of i * unit meters.
RouteOf(request, unit) ==
  [legs |-> [i \in 1..(Len(request.stopQueries) - 1) |->
               [route |-> request.query, index |-> i, distance |-> unit * i,
                start_location |-> request.stopQueries[i],
                end_location |-> request.stopQueries[i + 1]]]]

\* The answers to a request: a failure, or one route with legs of the
\* given units.
DirectionsAnswers(request, units) ==
  { [status |-> "ZERO_RESULTS", routes |-> <<>>] } \cup
  { [status |-> "OK", routes |-> << RouteOf(request, unit) >>] : unit \in units }

-----------------------------------------------------------------------------
(* Actions *)

\* loadMap succeeds: the services are set and the default itinerary is queried.
LoadMap ==
  /\ ~mapInitialized /\ ~mapError
  /\ LET a == [This EXCEPT !.mapInitialized = TRUE, !.mapError = FALSE]
     IN  Becomes(HandleMapQuery(a, DefaultParams(Len(queries) + 1)))
  /\ UNCHANGED callVars

\* loadMap fails: the catch branch.
LoadMapFailed ==
  /\ ~mapInitialized /\ ~mapError
  /\ Becomes([This EXCEPT !.mapError = TRUE, !.mapInitialized = FALSE])
  /\ UNCHANGED callVars

\* The number of handleMapQuery calls other than loadMap's.
QueriesAsked == Len(queries) - (IF mapInitialized THEN 1 ELSE 0)

\* handleMapQuery(params) for some params of the set.
MapQuery(paramsSet, maxQueries) ==
  /\ QueriesAsked < maxQueries
  /\ \E p \in paramsSet :
       LET a == HandleMapQuery(This, p)
       IN  Len(a.messages) <= MaxMessages /\ Becomes(a)
  /\ UNCHANGED callVars

\* handleMapQuery({location})
ViewLocationQuery == MapQuery({[location |-> q] : q \in Locations}, MaxQueries)

\* The same, up to MaxLocationQueries calls.
LocationQuery == MapQuery({[location |-> q] : q \in Locations}, MaxLocationQueries)

\* handleMapQuery({stops, accommodationCosts})
DirectionsQuery == MapQuery(RouteParams(Len(queries) + 1), MaxQueries)

\* handleMapQuery({stops, accommodationCosts, travelMode}), the optional
\* parameters given or not.
ItineraryQuery == MapQuery(ItineraryParams(Len(queries) + 1), MaxItineraryQueries)

\* The geocoder answers a pending request.
GeocodeResponse ==
  /\ \E request \in BagToSet(geocodePending), status \in {"OK", "ZERO_RESULTS"} :
       LET a == GeocodeAnswered(This, request, status)
       IN  Len(a.messages) <= MaxMessages /\ Becomes(a)
  /\ UNCHANGED callVars

\* The directions service answers a pending request.
RouteAnswer(units) ==
  /\ \E request \in BagToSet(routePending) :
       \E answer \in DirectionsAnswers(request, units) :
         LET a == DirectionsAnswered(This, request, answer.status, answer.routes)
         IN  Len(a.messages) <= MaxMessages /\ Becomes(a)
  /\ UNCHANGED callVars

DirectionsResponse == RouteAnswer({1000000})

\* The same, with routes whose legs all have length 0 as well.
ItineraryResponse == RouteAnswer({0, 1000000})

\* @input of #animationSpeedSlider, rendered while an itinerary is shown.
AnimationSpeedChange ==
  /\ itineraryData # Null
  /\ currentAnimationId < MaxAnimationId
  /\ \E value \in Speeds : Becomes(HandleAnimationSpeedChange(This, value))
  /\ UNCHANGED callVars

\* @input of #mpgInput, rendered while a DRIVING itinerary is shown.
MpgInput ==
  /\ itineraryData # Null
  /\ itineraryData.travelMode = "DRIVING"
  /\ \E value \in MpgValues : Becomes(HandleMpgInput(This, value))
  /\ UNCHANGED callVars

\* The setTimeout of a suspended animation loop fires.
AnimationTimer ==
  /\ \E l \in BagToSet(loops) : Becomes(ResumeLoop(This, l))
  /\ UNCHANGED callVars

\* Map queries, their answers, the slider and the timers, in any order.
Next ==
  \/ LoadMap
  \/ LoadMapFailed
  \/ ViewLocationQuery
  \/ DirectionsQuery
  \/ GeocodeResponse
  \/ DirectionsResponse
  \/ AnimationSpeedChange
  \/ AnimationTimer

Spec == Init /\ [][Next]_vars

\* View-location queries one after another, a directions query before them,
\* and their answers, in any order.
NextLocation ==
  \/ LoadMap
  \/ LocationQuery
  \/ DirectionsQuery
  \/ GeocodeResponse
  \/ DirectionsResponse
  \/ AnimationTimer

SpecLocation == Init /\ [][NextLocation]_vars

\* The default itinerary on the map, drawn statically: the state Init leads
\* to by loadMap, an OK answer to its request and the slider moved to 100.
DefaultItineraryShown ==
  LET loaded == HandleMapQuery([Constructed EXCEPT !.mapInitialized = TRUE],
                               DefaultParams(1))
      request == CHOOSE r \in BagToSet(loaded.routePending) : TRUE
      shown == DirectionsAnswered(loaded, request, "OK",
                                  << RouteOf(request, 1000000) >>)
  IN  HandleAnimationSpeedChange(shown, StoppedSpeed)

InitItinerary ==
  /\ Is(DefaultItineraryShown)
  /\ steps = 0
  /\ colors = <<>>
  /\ markdown = <<>>
  /\ parsed = <<>>
  /\ totalSeconds = 0
  /\ formatted = <<>>

\* From there: directions queries with every shape of the optional
\* parameters, their answers, the MPG field and the timers, in any order.
NextItinerary ==
  \/ ItineraryQuery
  \/ ItineraryResponse
  \/ MpgInput
  \/ AnimationTimer

SpecItinerary == InitItinerary /\ [][NextItinerary]_vars

-----------------------------------------------------------------------------
(* _generateColorSpectrum on its own *)

InitSpectrum ==
  /\ Is(Constructed)
  /\ steps \in 1..MaxSteps
  /\ colors = <<>>
  /\ markdown = <<>>
  /\ parsed = <<>>
  /\ totalSeconds = 0
  /\ formatted = <<>>

CallGenerateColorSpectrum ==
  /\ colors = <<>>
  /\ colors' = GenerateColorSpectrum(steps)
  /\ UNCHANGED << appVars, steps, markdown, parsed, totalSeconds, formatted >>

NextSpectrum == CallGenerateColorSpectrum

SpecSpectrum == InitSpectrum /\ [][NextSpectrum]_vars

-----------------------------------------------------------------------------
(* JSON values and files *)

Str(text) == [str |-> text]
Bool(b) == [bool |-> b]
Arr(items) == [items |-> items]

\* typeof v === 'number', 'string', 'boolean'; Array.isArray(v)
IsNumber(v) == DOMAIN v = {"n", "d"}
IsString(v) == DOMAIN v = {"str"}
IsBoolean(v) == DOMAIN v = {"bool"}
IsArray(v) == DOMAIN v = {"items"}

\* typeof v === 'object' && v !== null
IsObject(v) ==
  /\ ~IsNumber(v) /\ ~IsString(v) /\ ~IsBoolean(v)
  /\ DOMAIN v # {"undefined"} /\ DOMAIN v # {"null"}

IsUndefined(v) == DOMAIN v = {"undefined"}
IsNull(v) == DOMAIN v = {"null"}

\* v.key: undefined when the value has no such property.
Get(v, key) == IF key \in DOMAIN v THEN v[key] ELSE Undefined

\* Math.max(x, y) for numbers that are finite or Infinity.
NumMax(x, y) == IF NumLeq(x, y) THEN y ELSE x

\* Math.max(...ids, 0)
RECURSIVE MaxOf(_)
MaxOf(numbers) ==
  IF numbers = <<>> THEN Zero ELSE NumMax(Head(numbers), MaxOf(Tail(numbers)))

\* The text of a file is carried as the tree of what is written in it: the
\* same tagged records, where a number may also be a literal too large for a
\* double, and NotJson for a text that is no JSON.
HugeLiteral == [literal |-> "1e999"]
NotJson == [garbage |-> TRUE]

\* JSON.parse on the text of a file that is JSON: a literal too large for a
\* double gives Infinity.
RECURSIVE JsonParse(_)
JsonParse(text) ==
  IF DOMAIN text = {"literal"} THEN Infinity
  ELSE IF IsNumber(text) \/ IsString(text) \/ IsBoolean(text) \/ IsNull(text)
  THEN text
  ELSE IF IsArray(text)
  THEN Arr([i \in DOMAIN text.items |-> JsonParse(text.items[i])])
  ELSE [k \in DOMAIN text |-> JsonParse(text[k])]

\* JSON.stringify: a number that is not finite is written as null, and so
\* is undefined in an array; a property that is undefined is left out.
RECURSIVE JsonStringify(_)
JsonStringify(v) ==
  IF IsNumber(v) THEN (IF IsFinite(v) THEN v ELSE Null)
  ELSE IF IsString(v) \/ IsBoolean(v) \/ IsNull(v) THEN v
  ELSE IF IsArray(v)
  THEN Arr([i \in DOMAIN v.items |->
              IF IsUndefined(v.items[i]) THEN Null ELSE JsonStringify(v.items[i])])
  ELSE [k \in {j \in DOMAIN v : ~IsUndefined(v[j])} |-> JsonStringify(v[k])]

-----------------------------------------------------------------------------
(* Map tour: export and import *)

\* this.savedViews.length === 0 ? nothing : the download of tourData
ExportTour(a) ==
  IF Len(a.savedViews) = 0 THEN a
  ELSE LET tourData == [playbackDelay |-> a.playbackDelay,
                        playbackFlyoverTime |-> a.playbackFlyoverTime,
                        loopTour |-> Bool(a.loopTour),
                        views |-> Arr(a.savedViews)]
       IN  [a EXCEPT !.downloads = Append(@, JsonStringify(tourData))]

\* The tests of validateTourFile on one view: "true" when all pass, "false"
\* at the first that fails, "TypeError" when a property of null or undefined
\* is read.
ValidateView(view) ==
  IF IsNull(view) \/ IsUndefined(view) THEN "TypeError"
  ELSE IF ~IsNumber(Get(view, "id")) THEN "false"
  ELSE IF ~IsString(Get(view, "name")) THEN "false"
  ELSE IF ~IsNumber(Get(view, "heading")) THEN "false"
  ELSE IF ~IsNumber(Get(view, "tilt")) THEN "false"
  ELSE IF ~IsNumber(Get(view, "range")) THEN "false"
  ELSE IF ~IsObject(Get(view, "center")) THEN "false"
  ELSE IF ~IsNumber(Get(view.center, "lat")) THEN "false"
  ELSE IF ~IsNumber(Get(view.center, "lng")) THEN "false"
  ELSE IF /\ ~IsUndefined(Get(view.center, "altitude"))
          /\ ~IsNumber(Get(view.center, "altitude"))
  THEN "false"
  ELSE "true"

\* for (const view of data.views)
RECURSIVE ValidateViews(_)
ValidateViews(views) ==
  IF views = <<>> THEN "true"
  ELSE IF ValidateView(Head(views)) # "true" THEN ValidateView(Head(views))
  ELSE ValidateViews(Tail(views))

ValidateTourFile(data) ==
  IF ~IsObject(data) THEN "false"
  ELSE IF ~IsNumber(Get(data, "playbackDelay")) THEN "false"
  ELSE IF /\ ~IsUndefined(Get(data, "playbackFlyoverTime"))
          /\ ~IsNumber(Get(data, "playbackFlyoverTime"))
  THEN "false"
  ELSE IF ~IsBoolean(Get(data, "loopTour")) THEN "false"
  ELSE IF ~IsArray(Get(data, "views")) THEN "false"
  ELSE ValidateViews(data.views.items)

\* window.alert(text)
Alert(a, text) == [a EXCEPT !.alerts = Append(@, text)]

\* Math.max(...data.views.map(v => v.id), 0) + 1
NextIdAfter(views) ==
  NumAdd(MaxOf([i \in DOMAIN views |-> views[i].id]), Num(1))

\* An import that shows the tour tab before it reads the file.
FileLoadedOpeningTab(a, text, confirmed) ==
  LET b == [a EXCEPT !.activeRightSidebarTab = "tour"]
  IN  IF text = NotJson \/ ValidateTourFile(JsonParse(text)) # "true"
      THEN Alert(b, "Failed to import tour")
      ELSE b

\* reader.onload of handleFileImport for a file with the given text; confirmed
\* is the user's answer to confirm(), should it be asked.
FileLoaded(a, text, confirmed) ==
  IF text = NotJson THEN Alert(a, "Failed to import tour")
  ELSE LET data == JsonParse(text)
       IN  IF ValidateTourFile(data) # "true"
           THEN Alert(a, "Failed to import tour")
           ELSE IF Len(a.savedViews) > 0 /\ ~confirmed THEN a
           ELSE Alert([a EXCEPT
                         !.playbackDelay = data.playbackDelay,
                         !.playbackFlyoverTime =
                            IF IsUndefined(Get(data, "playbackFlyoverTime"))
                            THEN Num(DefaultFlyoverTime)
                            ELSE data.playbackFlyoverTime,
                         !.loopTour = data.loopTour.bool,
                         !.savedViews = data.views.items,
                         !.nextViewId = NextIdAfter(data.views.items),
                         !.activeRightSidebarTab = "tour"],
                      "Tour imported successfully!")

\* reader.onerror of handleFileImport
FileReadFailed(a) == Alert(a, "Error reading the selected file.")

-----------------------------------------------------------------------------
(* Map tour: the list of saved views *)

\* views.findIndex((v) => v.id === id), counted from 1, and 0 for -1.
FindIndex(views, id) ==
  IF \E i \in DOMAIN views : views[i].id = id
  THEN CHOOSE i \in DOMAIN views :
         /\ views[i].id = id
         /\ \A j \in 1..(i - 1) : views[j].id # id
  ELSE 0

\* array.splice(i, 1) and array.splice(i, 0, item) on a copy, i from 1.
RemoveAt(array, i) == SubSeq(array, 1, i - 1) \o SubSeq(array, i + 1, Len(array))
InsertAt(array, i, item) ==
  SubSeq(array, 1, i - 1) \o << item >> \o SubSeq(array, i, Len(array))

HandleDragStart(a, view) == [a EXCEPT !.draggedItemId = << view.id >>]

\* The guard of handleDrop: nothing is dragged, or the target has the id of
\* the dragged view.
DropIgnored(a, dropTargetView) ==
  a.draggedItemId = <<>> \/ a.draggedItemId = << dropTargetView.id >>

HandleDrop(a, dropTargetView) ==
  IF DropIgnored(a, dropTargetView) THEN a
  ELSE LET draggedIndex == FindIndex(a.savedViews, a.draggedItemId[1])
           targetIndex == FindIndex(a.savedViews, dropTargetView.id)
       IN  IF draggedIndex = 0 \/ targetIndex = 0 THEN a
           ELSE [a EXCEPT !.savedViews =
                   InsertAt(RemoveAt(@, draggedIndex), targetIndex, @[draggedIndex])]

HandleDragEnd(a) == [a EXCEPT !.draggedItemId = <<>>]

DeleteView(a, idToDelete) ==
  LET Kept(view) == view.id # idToDelete
  IN  [a EXCEPT !.savedViews = SelectSeq(@, Kept)]

StartEditingView(a, id) ==
  IF a.isPlayingTour THEN a ELSE [a EXCEPT !.editingViewId = << id >>]

\* newName.trim() for the names typed in the model: "" for a blank one.
Trim(newName) == IF newName = "   " THEN "" ELSE newName

SaveViewName(a, id, newName) ==
  IF a.editingViewId # << id >> THEN a
  ELSE LET viewIndex == FindIndex(a.savedViews, id)
           b == IF viewIndex > 0 /\ Trim(newName) # ""
                THEN [a EXCEPT !.savedViews[viewIndex].name = Str(Trim(newName))]
                ELSE a
       IN  [b EXCEPT !.editingViewId = <<>>]

HandleRenameKeyDown(a, key, id, value) ==
  IF key = "Enter" THEN SaveViewName(a, id, value)
  ELSE IF key = "Escape" THEN [a EXCEPT !.editingViewId = <<>>]
  ELSE a

\* A Clear that empties the map as well.
ClearTourViewsAndMap(a) ==
  IF Len(a.savedViews) = 0 THEN a
  ELSE ClearMapElements([a EXCEPT !.savedViews = <<>>, !.nextViewId = Zero,
                                   !.isPlayingTour = FALSE])

ClearTourViews(a) ==
  IF Len(a.savedViews) = 0 THEN a
  ELSE [a EXCEPT !.savedViews = <<>>, !.nextViewId = Zero, !.isPlayingTour = FALSE]

\* The name saveCurrentView gives a view when the reverse geocode has no
\* result: 'View @ lat, lng'.
CoordinatesName(center) == ToString(<< "View @", center.lat, center.lng >>)

\* saveCurrentView up to its await; cameraState is Undefined when the map
\* has none.  initializeMap sets map and geocoder together.
SaveCurrentView(a, cameraState) ==
  IF ~MapReady(a) \/ a.isSavingView THEN a
  ELSE IF cameraState = Undefined
  THEN Alert([a EXCEPT !.isSavingView = FALSE],
             "Error: Could not save the current view.")
  ELSE [a EXCEPT !.isSavingView = TRUE,
                 !.savePending = @ (+) One(cameraState)]

\* saveCurrentView from the answer of the reverse geocode on: results is
\* the sequence of formatted addresses, empty when the call failed as well.
ViewNamed(a, cameraState, results) ==
  LET name == IF results # <<>> THEN Str(results[1])
              ELSE Str(CoordinatesName(cameraState.center))
      newView == [id |-> a.nextViewId,
                  name |-> name,
                  center |-> cameraState.center,
                  heading |-> cameraState.heading,
                  tilt |-> cameraState.tilt,
                  range |-> cameraState.range,
                  type |-> Str("custom"),
                  itineraryIndex |-> Num(-1)]
  IN  [a EXCEPT !.savePending = @ (-) One(cameraState),
                !.nextViewId = NumAdd(@, Num(1)),
                !.savedViews = Append(@, newView),
                !.isSavingView = FALSE]

-----------------------------------------------------------------------------
(* Map tour: playback *)

\* flyToView(view, durationMillis)
FlyToView(a, view, durationMillis) ==
  LET called == [a EXCEPT !.flyToViewCalls = Append(@, view)]
  IN  IF ~MapReady(a) THEN called
      ELSE [called EXCEPT !.cameraFlights =
              Append(@, [endCamera |-> [center |-> view.center,
                                        heading |-> view.heading,
                                        tilt |-> view.tilt,
                                        range |-> view.range],
                         durationMillis |-> durationMillis])]

\* seconds * 1000
Millis(seconds) == NumMul(seconds, Num(1000))

\* playTour leaves its while loop: this.isPlayingTour = false.
TourEnds(a) == [a EXCEPT !.isPlayingTour = FALSE]

\* A playTour call suspended at an await is [views, next, at, wait]: the
\* array its for loop iterates, the index of the view it is at, which of
\* the two timers it waits for, and the milliseconds of that timer.  A call
\* that can never reach an await again is [at |-> "spinning"].
Spinning == [at |-> "spinning"]

\* The for loop of playTour from the view at index next of views on.
TourFor(a, views, next) ==
  IF next <= Len(views)
  THEN IF ~a.isPlayingTour THEN TourEnds(a)
       ELSE LET flyoverMillis == Millis(a.playbackFlyoverTime)
                b == FlyToView(a, views[next], flyoverMillis)
            IN  [b EXCEPT !.tourPlayers =
                   @ (+) One([views |-> views, next |-> next, at |-> "flyover",
                              wait |-> flyoverMillis])]
  ELSE IF ~a.loopTour \/ ~a.isPlayingTour THEN TourEnds(a)
  ELSE IF Len(a.savedViews) = 0
  THEN [a EXCEPT !.tourPlayers = @ (+) One(Spinning)]
  ELSE LET flyoverMillis == Millis(a.playbackFlyoverTime)
           b == FlyToView(a, a.savedViews[1], flyoverMillis)
       IN  [b EXCEPT !.tourPlayers =
              @ (+) One([views |-> a.savedViews, next |-> 1, at |-> "flyover",
                         wait |-> flyoverMillis])]

PlayTour(a) ==
  IF a.isPlayingTour \/ Len(a.savedViews) = 0 THEN a
  ELSE TourFor([a EXCEPT !.isPlayingTour = TRUE], a.savedViews, 1)

\* A playTour call that looks at isPlayingTour at the head of its for loop
\* only, not after the flight.
TourResumedAfterFlight(a, p) ==
  LET b == [a EXCEPT !.tourPlayers = @ (-) One(p)]
  IN  IF p.at = "flyover"
      THEN [b EXCEPT !.tourPlayers =
              @ (+) One([p EXCEPT !.at = "delay", !.wait = Millis(b.playbackDelay)])]
      ELSE TourFor(b, p.views, p.next + 1)

\* A playTour call that flies to the next view as soon as the flight is
\* over, without the playback delay.
TourResumedWithoutDelay(a, p) ==
  TourFor([a EXCEPT !.tourPlayers = @ (-) One(p)], p.views, p.next + 1)

\* The timer a suspended playTour call waits for fires.
TourResumed(a, p) ==
  LET b == [a EXCEPT !.tourPlayers = @ (-) One(p)]
  IN  IF p.at = "flyover"
      THEN IF ~b.isPlayingTour THEN TourEnds(b)
           ELSE [b EXCEPT !.tourPlayers =
                   @ (+) One([p EXCEPT !.at = "delay",
                                       !.wait = Millis(b.playbackDelay)])]
      ELSE TourFor(b, p.views, p.next + 1)

\* @click of the Stop button
StopTour(a) == [a EXCEPT !.isPlayingTour = FALSE]

\* The script of the page runs on: no playTour call spins.
Responsive(a) == ~BagIn(Spinning, a.tourPlayers)

-----------------------------------------------------------------------------
(* Map tour: inputs *)

\* A view as a tour file holds it; the camera is the same for all.
FileView(id, name) ==
  [id |-> id, name |-> Str(name),
   center |-> [lat |-> Num(48), lng |-> Num(2), altitude |-> Num(300)],
   heading |-> Num(0), tilt |-> Num(45), range |-> Num(2000),
   type |-> Str("custom"), itineraryIndex |-> Num(-1)]

\* A tour of three views.
TourFile ==
  [playbackDelay |-> Num(5), playbackFlyoverTime |-> Num(1),
   loopTour |-> Bool(FALSE),
   views |-> Arr(<< FileView(Num(0), "a"), FileView(Num(1), "b"),
                    FileView(Num(2), "c") >>)]

\* A file of an earlier version: no playbackFlyoverTime, no altitude.
OldTourFile ==
  [playbackDelay |-> Num(4), loopTour |-> Bool(FALSE),
   views |-> Arr(<< [id |-> Num(1), name |-> Str("d"),
                     center |-> [lat |-> Num(48), lng |-> Num(2)],
                     heading |-> Num(0), tilt |-> Num(45), range |-> Num(2000)] >>)]

\* A file written by hand in which two views have the same id.
SameIdFile ==
  [TourFile EXCEPT !.views = Arr(<< FileView(Num(1), "a"), FileView(Num(2), "b"),
                                    FileView(Num(2), "c") >>)]

\* A file whose playbackDelay is written 1e999.
HugeDelayFile == [TourFile EXCEPT !.playbackDelay = HugeLiteral]

\* Files validateTourFile does not accept, and one that is no JSON.
BadFiles ==
  { NotJson,
    Num(1),
    Arr(<< >>),
    [TourFile EXCEPT !.playbackDelay = Str("5")],
    [TourFile EXCEPT !.playbackFlyoverTime = Null],
    [TourFile EXCEPT !.loopTour = Num(1)],
    [TourFile EXCEPT !.views = Null],
    [TourFile EXCEPT !.views = Arr(<< FileView(Str("0"), "a") >>)],
    [TourFile EXCEPT !.views = Arr(<< FileView(Num(0), "a"), Null >>)],
    [TourFile EXCEPT !.views =
       Arr(<< [FileView(Num(0), "a") EXCEPT !.center = Null] >>)],
    [TourFile EXCEPT !.views =
       Arr(<< [FileView(Num(0), "a") EXCEPT !.center.altitude = Str("0")] >>)],
    [loopTour |-> Bool(FALSE), views |-> Arr(<< >>)] }

\* The camera states of the map when Save View is pressed: none, or one.
CameraStates ==
  { Undefined,
    [center |-> [lat |-> Num(40), lng |-> Num(-74), altitude |-> Num(500)],
     heading |-> Num(90), tilt |-> Num(60), range |-> Num(1500)] }

\* What is typed into the rename field.
NewNames == { "e", "   " }

\* Number(value) of the two settings fields.
SettingValues == { Num(1), Rat(1, 2) }

-----------------------------------------------------------------------------
(* Map tour: actions *)

\* A tour file is chosen and read (the Import button is disabled during
\* playback); the read is taken to finish before the next event.
ImportOf(files) ==
  /\ ~isPlayingTour
  /\ Len(alerts) < MaxAlerts
  /\ \E text \in files, confirmed \in BOOLEAN :
       Becomes(FileLoaded(This, text, confirmed))
  /\ UNCHANGED callVars

\* @click of Export, disabled with no view and during playback.
Export ==
  /\ Len(savedViews) > 0 /\ ~isPlayingTour
  /\ Len(downloads) < MaxDownloads
  /\ Becomes(ExportTour(This))
  /\ UNCHANGED callVars

\* @dragstart on the list item of the view at index i.
DragStart ==
  /\ \E i \in DOMAIN savedViews : Becomes(HandleDragStart(This, savedViews[i]))
  /\ UNCHANGED callVars

\* @drop on the list item of the view at index j.
DropOn(j) ==
  /\ Becomes(HandleDrop(This, savedViews[j]))
  /\ UNCHANGED callVars

Drop == \E j \in DOMAIN savedViews : DropOn(j)

\* @dragend
DragEnd ==
  /\ draggedItemId # <<>>
  /\ Becomes(HandleDragEnd(This))
  /\ UNCHANGED callVars

\* @click of the delete button of the view at index i.
DeleteClick ==
  /\ \E i \in DOMAIN savedViews : Becomes(DeleteView(This, savedViews[i].id))
  /\ UNCHANGED callVars

\* @dblclick on the name of the view at index i.
NameDoubleClick ==
  /\ \E i \in DOMAIN savedViews : Becomes(StartEditingView(This, savedViews[i].id))
  /\ UNCHANGED callVars

\* @keydown and @blur of the rename field, shown for the view being edited.
Rename ==
  /\ \E i \in DOMAIN savedViews, value \in NewNames :
       /\ editingViewId = << savedViews[i].id >>
       /\ \/ \E key \in {"Enter", "Escape", "a"} :
               Becomes(HandleRenameKeyDown(This, key, savedViews[i].id, value))
          \/ Becomes(SaveViewName(This, savedViews[i].id, value))
  /\ UNCHANGED callVars

\* @click of Clear, disabled with no view and during playback.
ClearClick ==
  /\ Len(savedViews) > 0 /\ ~isPlayingTour
  /\ Becomes(ClearTourViews(This))
  /\ UNCHANGED callVars

\* @click of Save View, disabled while saving and during playback.
SaveViewClick ==
  /\ ~isSavingView /\ ~isPlayingTour
  /\ IsFinite(nextViewId) /\ nextViewId.n < MaxViewId
  /\ \E cameraState \in CameraStates :
       LET a == SaveCurrentView(This, cameraState)
       IN  Len(a.alerts) <= MaxAlerts /\ Becomes(a)
  /\ UNCHANGED callVars

\* The reverse geocode of saveCurrentView answers.
SaveViewResponse ==
  /\ \E cameraState \in BagToSet(savePending), results \in {<<>>, << "address" >>} :
       Becomes(ViewNamed(This, cameraState, results))
  /\ UNCHANGED callVars

\* @input of the two settings fields and @change of the loop switch.
FlyoverInput ==
  /\ \E value \in SettingValues : Becomes([This EXCEPT !.playbackFlyoverTime = value])
  /\ UNCHANGED callVars

DelayInput ==
  /\ \E value \in SettingValues : Becomes([This EXCEPT !.playbackDelay = value])
  /\ UNCHANGED callVars

LoopChange ==
  /\ Becomes([This EXCEPT !.loopTour = ~loopTour])
  /\ UNCHANGED callVars

\* @click of Play, disabled during playback and with no view.
PlayClick ==
  /\ ~isPlayingTour /\ Len(savedViews) > 0
  /\ Len(flyToViewCalls) < MaxFlights
  /\ Becomes(PlayTour(This))
  /\ UNCHANGED callVars

\* @click of Stop, disabled when nothing plays.
StopClick ==
  /\ isPlayingTour
  /\ Becomes(StopTour(This))
  /\ UNCHANGED callVars

\* The timer of a suspended playTour call fires.
TourTimer ==
  /\ \E p \in BagToSet(tourPlayers) :
       /\ p # Spinning
       /\ LET a == TourResumed(This, p)
          IN  Len(a.flyToViewCalls) <= MaxFlights /\ Becomes(a)
  /\ UNCHANGED callVars

-----------------------------------------------------------------------------
(* Reordering the tour *)

\* Tours are imported, then views are dragged, dropped and deleted, in any
\* order.
ImportTour == ImportOf({TourFile, SameIdFile})

NextDrag ==
  \/ ImportTour
  \/ DragStart
  \/ Drop
  \/ DragEnd
  \/ DeleteClick

SpecDrag == Init /\ [][NextDrag]_vars

-----------------------------------------------------------------------------
(* Tour files *)

\* Tour files of every kind are imported, the tour is exported and what was
\* exported imported again, the settings are changed, in any order.
ImportFile == ImportOf({TourFile, OldTourFile, HugeDelayFile} \cup BadFiles)

Reimport == ImportOf({downloads[i] : i \in DOMAIN downloads})

\* The chosen file cannot be read.
FileError ==
  /\ ~isPlayingTour
  /\ Len(alerts) < MaxAlerts
  /\ Becomes(FileReadFailed(This))
  /\ UNCHANGED callVars

NextFile ==
  \/ ImportFile
  \/ Reimport
  \/ FileError
  \/ Export
  \/ DelayInput
  \/ LoopChange

SpecFile == Init /\ [][NextFile]_vars

-----------------------------------------------------------------------------
(* Playing a tour undisturbed *)

\* loadMap has succeeded and asked for the default itinerary.
MapLoaded ==
  HandleMapQuery([Constructed EXCEPT !.mapInitialized = TRUE], DefaultParams(1))

\* A tour that does not loop has been imported, with the map loaded or not.
InitPlay ==
  /\ \E a \in {Constructed, MapLoaded}, text \in {TourFile, OldTourFile} :
       Is(FileLoaded(a, text, TRUE))
  /\ steps = 0
  /\ colors = <<>>
  /\ markdown = <<>>
  /\ parsed = <<>>
  /\ totalSeconds = 0
  /\ formatted = <<>>

\* The two times are set before the first playback.
SetFlyoverTime == Len(flyToViewCalls) = 0 /\ ~isPlayingTour /\ FlyoverInput

SetPlaybackDelay == Len(flyToViewCalls) = 0 /\ ~isPlayingTour /\ DelayInput

\* Play, while the flights of the whole tour stay within MaxFlights.
PlayWhole ==
  /\ Len(flyToViewCalls) + Len(savedViews) <= MaxFlights
  /\ PlayClick

\* From there the times are set and Play is pressed; during a playback only
\* the timers of playTour fire.
NextPlay ==
  \/ SetFlyoverTime
  \/ SetPlaybackDelay
  \/ PlayWhole
  \/ TourTimer

\* A timer that is set fires.
SpecPlay == InitPlay /\ [][NextPlay]_vars /\ WF_vars(TourTimer)

-----------------------------------------------------------------------------
(* Stopping a tour *)

\* From an imported tour: the loop switch, Play, Stop and the timers of
\* playTour, in any order.
NextStop ==
  \/ LoopChange
  \/ PlayClick
  \/ StopClick
  \/ TourTimer

SpecStop == InitPlay /\ [][NextStop]_vars

-----------------------------------------------------------------------------
(* The route and the tour side by side *)

\* The default itinerary is on the map and its animation runs.
ItineraryAnimated ==
  LET request == CHOOSE r \in BagToSet(MapLoaded.routePending) : TRUE
  IN  DirectionsAnswered(MapLoaded, request, "OK", << RouteOf(request, 1000000) >>)

\* The states a user event arrives in: the map not loaded, loaded with the
\* default itinerary asked for, or with it shown and animated; and on the
\* tour side no saved view, an imported tour, or that tour being played.
FrameStates ==
  UNION { { route, FileLoaded(route, TourFile, TRUE),
            PlayTour(FileLoaded(route, TourFile, TRUE)) } :
          route \in {Constructed, MapLoaded, ItineraryAnimated} }

InitFrame ==
  /\ \E a \in FrameStates : Is(a)
  /\ steps = 0
  /\ colors = <<>>
  /\ markdown = <<>>
  /\ parsed = <<>>
  /\ totalSeconds = 0
  /\ formatted = <<>>

\* No user event has been handled yet.
AtFrameState == This \in FrameStates

\* One user event of the route or of the tour arrives in such a state;
\* then the answers of the services, the timers and what the event leads
\* to in the list of views (drops and the end of a drag, the keys of a
\* rename) follow in any order.
FrameLocationQuery == AtFrameState /\ ViewLocationQuery

FrameDirectionsQuery == AtFrameState /\ DirectionsQuery

FrameSpeedChange == AtFrameState /\ AnimationSpeedChange

FrameMpgInput == AtFrameState /\ MpgInput

FrameSaveView == AtFrameState /\ SaveViewClick

FrameDelete == AtFrameState /\ DeleteClick

FrameNameDoubleClick == AtFrameState /\ NameDoubleClick

FrameDragStart == AtFrameState /\ DragStart

FrameClear == AtFrameState /\ ClearClick

FrameImport == AtFrameState /\ ImportOf({OldTourFile, NotJson})

FramePlay == AtFrameState /\ PlayClick

FrameStop == AtFrameState /\ StopClick

NextFrame ==
  \/ FrameLocationQuery
  \/ FrameDirectionsQuery
  \/ GeocodeResponse
  \/ DirectionsResponse
  \/ FrameSpeedChange
  \/ FrameMpgInput
  \/ AnimationTimer
  \/ FrameSaveView
  \/ SaveViewResponse
  \/ FrameDelete
  \/ FrameNameDoubleClick
  \/ Rename
  \/ FrameDragStart
  \/ Drop
  \/ DragEnd
  \/ FrameClear
  \/ FrameImport
  \/ FramePlay
  \/ FrameStop
  \/ TourTimer

SpecFrame == InitFrame /\ [][NextFrame]_vars

-----------------------------------------------------------------------------
(* _parseItineraryTable *)

\* A line of the markdown is carried as the cells row.split('|') gives for
\* it; the cells are strings of a small vocabulary, on which trim, the
\* replacements and the parsers are given by cases.  The en dash and the em
\* dash are written &ndash; and &mdash;.

\* c.trim()
TrimCell(cell) == IF cell = " " THEN "" ELSE cell

\* l.trim() === '' : the line is filtered out.
IsBlank(line) == Len(line) = 1 /\ TrimCell(line[1]) = ""

\* l.includes('|')
IncludesPipe(line) == Len(line) > 1

\* l.includes('--')
IncludesDashes(line) == \E i \in DOMAIN line : line[i] \in {"---", "-- notes --"}

\* row.startsWith('|'), row a trimmed line
StartsWithPipe(line) == Len(line) > 1 /\ TrimCell(line[1]) = ""

\* columns[3].replace(/\*\*|&ndash; START|&ndash; RETURN/g, '').trim()
StopNameForLabel(cell) ==
  IF cell = "**Home &ndash; START**" \/ cell = "**Home &ndash; RETURN**" THEN "Home" ELSE cell

\* The query for the geocoder.
QueryFor(stopNameForLabel, address) ==
  IF address # "" /\ address # "&mdash;"
  THEN IF stopNameForLabel = "Home" THEN address
       ELSE ToString(<< stopNameForLabel, address >>)
  ELSE stopNameForLabel

\* dateStr.split(/&ndash;|-/)[0].trim()
FirstDatePart(dateStr) == IF dateStr = "Aug 13&ndash;14" THEN "Aug 13" ELSE dateStr

\* The day toISOString gives for new Date(`${firstDatePart} ${year}`) (the
\* year and the time zone left open), '' when the date is invalid.
DateOf(dateStr) ==
  IF dateStr = "" \/ dateStr = "&mdash;" THEN ""
  ELSE IF FirstDatePart(dateStr) = "Aug 12" THEN "08-12"
  ELSE IF FirstDatePart(dateStr) = "Aug 13" THEN "08-13"
  ELSE ""

\* parseFloat(rateStr.replace(/[$\\]/g, '')), 0 for NaN
RateOf(rateStr) ==
  IF rateStr = "" \/ rateStr = "&mdash;" THEN 0
  ELSE IF rateStr = "$120" THEN 120
  ELSE IF rateStr = "\\$95" THEN 95
  ELSE 0

\* All rates.
AllRates(rates) == rates

\* rates.slice(1)
RatesAfterFirst(rates) == Tail(rates)

\* The three arrays after the for loop over dataRows.
RECURSIVE ParseRows(_, _)
ParseRows(dataRows, sofar) ==
  IF dataRows = <<>> THEN sofar
  ELSE LET row == Head(dataRows)
           columns == [i \in DOMAIN row |-> TrimCell(row[i])]
       IN  IF ~StartsWithPipe(row) \/ Len(columns) < 8
           THEN ParseRows(Tail(dataRows), sofar)
           ELSE LET stopNameForLabel == StopNameForLabel(columns[4])
                    query == QueryFor(stopNameForLabel, columns[5])
                IN  ParseRows(Tail(dataRows),
                      [stops |-> Append(sofar.stops,
                                        [name |-> stopNameForLabel, query |-> query]),
                       dates |-> Append(sofar.dates, DateOf(columns[3])),
                       rates |-> Append(sofar.rates, RateOf(columns[8]))])

ParseItineraryTable(text) ==
  LET NotBlank(line) == ~IsBlank(line)
      lines == SelectSeq(text, NotBlank)
  IN  IF Len(lines) < 3 THEN Null
      ELSE IF ~IncludesPipe(lines[1]) \/ ~IncludesDashes(lines[2]) THEN Null
      ELSE LET rows == ParseRows(SubSeq(lines, 3, Len(lines)),
                                 [stops |-> <<>>, dates |-> <<>>, rates |-> <<>>])
           IN  IF Len(rows.stops) < 2 THEN Null
               ELSE [stops |-> rows.stops,
                     dates |-> rows.dates,
                     accommodationCosts |-> RatesAfterFirst(rows.rates)]

\* The lines tried: a blank one, one with dashes and no '|', a header, a
\* separator, three rows of a trip (the first indented), a row of five
\* columns, and a row that does not start with '|'.
Lines ==
  { << " " >>,
    << "-- notes --" >>,
    << "", "Day", "Dates", "Stop", "Address", "Miles", "Hours", "Rate", "" >>,
    << "", "---", "---", "---", "---", "---", "---", "---", "" >>,
    << " ", "1", "Aug 12", "**Home &ndash; START**", "12 Main St", "0", "0", "&mdash;", "" >>,
    << "", "2", "Aug 13&ndash;14", "Paris", "&mdash;", "120", "2", "$120", "" >>,
    << "", "3", "soon", "Lyon", "5 Rue X", "200", "3", "n/a", "" >>,
    << "", "4", "Aug 12", "Nice", "" >>,
    << "5", "Aug 12", "Rome", "1 Via Y", "300", "4", "\\$95", "", "" >> }

\* The texts of up to MaxLines lines.
Markdowns == UNION { [1..n -> Lines] : n \in 0..MaxLines }

InitParse ==
  /\ Is(Constructed)
  /\ steps = 0
  /\ colors = <<>>
  /\ markdown \in Markdowns
  /\ parsed = <<>>
  /\ totalSeconds = 0
  /\ formatted = <<>>

CallParseItineraryTable ==
  /\ parsed = <<>>
  /\ parsed' = << ParseItineraryTable(markdown) >>
  /\ UNCHANGED << appVars, steps, colors, markdown, totalSeconds, formatted >>

NextParse == CallParseItineraryTable

SpecParse == InitParse /\ [][NextParse]_vars

-----------------------------------------------------------------------------
(* Chat *)

SetChatState(a, state) == [a EXCEPT !.chatState = state]

\* text.trim() on a text of several lines: the blank lines at both ends go
\* (the blanks at the ends of a line are dropped by TrimCell).
TrimText(text) ==
  LET kept == {i \in DOMAIN text : ~IsBlank(text[i])}
  IN  IF kept = {} THEN <<>>
      ELSE SubSeq(text, CHOOSE i \in kept : \A j \in kept : i <= j,
                        CHOOSE i \in kept : \A j \in kept : j <= i)

\* The test of sendMessageAction on the result of the parser that never
\* takes a text for an itinerary.
NeverItinerary(parsedItinerary) == FALSE

\* parsedItinerary && parsedItinerary.stops.length >= 2
IsItinerary(parsedItinerary) ==
  parsedItinerary # Null /\ Len(parsedItinerary.stops) >= 2

\* The handler createSendMessageHandler returns, up to its first await of
\* the network.  A stream is [chunks, throws]: the chunks it yields, each the
\* set of the fields its part has ({} for a chunk without parts), and whether
\* it throws after them rather than ends.
SendMessageHandler(a, input, role, stream) ==
  LET b == SetChatState(AddMessage(a, "assistant"), "GENERATING")
  IN  [b EXCEPT !.handlerCalls =
         @ (+) One([input |-> input, role |-> role,
                    chunks |-> stream.chunks, throws |-> stream.throws])]

\* The body of for await for the next chunk of the call.
ChunkHandled(a, call) ==
  LET part == Head(call.chunks)
      b == IF "functionCall" \in part THEN AddMessage(a, "assistant") ELSE a
      c == IF "thought" \in part THEN SetChatState(b, "THINKING")
           ELSE IF "text" \in part THEN SetChatState(b, "EXECUTING")
           ELSE b
  IN  [c EXCEPT !.handlerCalls =
         (@ (-) One(call)) (+) One([call EXCEPT !.chunks = Tail(@)])]

\* The handler from the end of the stream on, with the reset left to the
\* normal end.
HandlerReturnsWithoutFinally(a, call) ==
  LET b == [a EXCEPT !.handlerCalls = @ (-) One(call)]
  IN  IF call.throws THEN AddMessage(b, "error") ELSE SetChatState(b, "IDLE")

\* The handler from the end of the stream on: the catch when it throws, the
\* post-processing, the finally.
HandlerReturns(a, call) ==
  LET b == [a EXCEPT !.handlerCalls = @ (-) One(call)]
      c == IF call.throws THEN AddMessage(b, "error") ELSE b
  IN  SetChatState(c, "IDLE")

\* sendMessageAction() for the text of the input field; stream is what the
\* model answers with, should it be asked.
SendMessageAction(a, stream) ==
  IF a.chatState # "IDLE" THEN a
  ELSE LET msg == TrimText(a.inputMessage)
           b == [a EXCEPT !.inputMessage = <<>>]
       IN  IF msg = <<>> THEN b
           ELSE LET parsedItinerary == ParseItineraryTable(msg)
                    c == AddMessage(b, "user")
                IN  IF IsItinerary(parsedItinerary)
                    THEN IF c.sendMessageHandler
                         THEN LET d == AddMessage(SetChatState(c, "EXECUTING"),
                                                  "assistant")
                                  e == HandleMapQuery(d,
                                         [stops |-> parsedItinerary.stops,
                                          accommodationCosts |->
                                            parsedItinerary.accommodationCosts,
                                          dates |-> parsedItinerary.dates])
                              IN  SetChatState(e, "IDLE")
                         ELSE c
                    ELSE IF c.sendMessageHandler
                    THEN SendMessageHandler(c, msg, "user", stream)
                    ELSE c

-----------------------------------------------------------------------------
(* Chat: inputs *)

Header == << "", "Day", "Dates", "Stop", "Address", "Miles", "Hours", "Rate", "" >>
Separator == << "", "---", "---", "---", "---", "---", "---", "---", "" >>
HomeRow ==
  << " ", "1", "Aug 12", "**Home &ndash; START**", "12 Main St", "0", "0", "&mdash;", "" >>
ParisRow == << "", "2", "Aug 13&ndash;14", "Paris", "&mdash;", "120", "2", "$120", "" >>
LyonRow == << "", "3", "soon", "Lyon", "5 Rue X", "200", "3", "n/a", "" >>

\* The texts typed: a table of two stops after a blank line, one of three
\* stops, a table of one stop, a question, and blanks.
ChatInputs ==
  { << << " " >>, Header, Separator, HomeRow, ParisRow >>,
    << Header, Separator, HomeRow, ParisRow, LyonRow >>,
    << Header, Separator, HomeRow >>,
    << << "Plan a trip to Paris" >> >>,
    << << " " >> >> }

\* The streams the model answers with: none of them with a part, one that
\* cannot be opened, thoughts, a function call and text, and one that breaks
\* after a part.
Streams ==
  { [chunks |-> <<>>, throws |-> FALSE],
    [chunks |-> << {} >>, throws |-> FALSE],
    [chunks |-> <<>>, throws |-> TRUE],
    [chunks |-> << {"thought"}, {"functionCall"}, {"text"} >>, throws |-> FALSE],
    [chunks |-> << {"functionCall", "text"} >>, throws |-> TRUE] }

-----------------------------------------------------------------------------
(* Chat: actions *)

\* The messages of a role.
Turns(role) == Cardinality({i \in DOMAIN messages : messages[i] = role})

\* A page whose map has loaded or not, before the handler is installed.
InitChat ==
  /\ Is(Constructed) \/ Is(MapLoaded)
  /\ steps = 0
  /\ colors = <<>>
  /\ markdown = <<>>
  /\ parsed = <<>>
  /\ totalSeconds = 0
  /\ formatted = <<>>

\* mapApp.sendMessageHandler = createSendMessageHandler(mapApp, aiChat)
HandlerInstalled ==
  /\ ~sendMessageHandler
  /\ Becomes([This EXCEPT !.sendMessageHandler = TRUE])
  /\ UNCHANGED callVars

\* @input of #messageInput
MessageInput ==
  /\ Turns("user") < MaxTurns
  /\ \E value \in ChatInputs : Becomes([This EXCEPT !.inputMessage = value])
  /\ UNCHANGED callVars

\* @click of #sendButton, or Enter in #messageInput
SendMessage ==
  /\ \E stream \in Streams : Becomes(SendMessageAction(This, stream))
  /\ UNCHANGED callVars

\* The stream of a handler call yields its next chunk.
StreamChunk ==
  /\ \E call \in BagToSet(handlerCalls) :
       call.chunks # <<>> /\ Becomes(ChunkHandled(This, call))
  /\ UNCHANGED callVars

\* The stream of a handler call ends or throws.
StreamEnd ==
  /\ \E call \in BagToSet(handlerCalls) :
       call.chunks = <<>> /\ Becomes(HandlerReturns(This, call))
  /\ UNCHANGED callVars

\* The map server calls back for a tool call of the model.
ToolMapQuery ==
  /\ handlerCalls # EmptyBag
  /\ QueriesAsked < MaxQueries
  /\ \E p \in RouteParams(Len(queries) + 1) \cup {[location |-> q] : q \in Locations} :
       Becomes(HandleMapQuery(This, p))
  /\ UNCHANGED callVars

NextChat ==
  \/ HandlerInstalled
  \/ MessageInput
  \/ SendMessage
  \/ StreamChunk
  \/ StreamEnd
  \/ ToolMapQuery

SpecChat == InitChat /\ [][NextChat]_vars

-----------------------------------------------------------------------------
(* Chat: one message for the model *)

\* The handler is installed, and nothing has been sent yet.
InitStream ==
  /\ \E a \in {Constructed, MapLoaded} : Is([a EXCEPT !.sendMessageHandler = TRUE])
  /\ steps = 0
  /\ colors = <<>>
  /\ markdown = <<>>
  /\ parsed = <<>>
  /\ totalSeconds = 0
  /\ formatted = <<>>

\* The first message is typed.
FirstMessageInput == Turns("user") = 0 /\ chatState = "IDLE" /\ MessageInput

NextStream ==
  \/ FirstMessageInput
  \/ SendMessage
  \/ StreamChunk
  \/ StreamEnd
  \/ ToolMapQuery

\* The model answers: a stream that is open yields its next chunk, ends or
\* throws.
SpecStream ==
  InitStream /\ [][NextStream]_vars /\ WF_vars(StreamChunk) /\ WF_vars(StreamEnd)

-----------------------------------------------------------------------------
(* _formatTotalDuration *)

\* The string a template literal gives for a non-negative integer: its
\* decimal digits.
RECURSIVE DecimalString(_)
DecimalString(n) ==
  LET digit == << "0", "1", "2", "3", "4", "5", "6", "7", "8", "9" >>[(n % 10) + 1]
  IN  IF n < 10 THEN << digit >> ELSE Append(DecimalString(n \div 10), digit)

\* The suffix that makes every component plural.
AlwaysPlural(count) == << "s" >>

\* count > 1 ? 's' : ''
PluralSuffix(count) == IF count > 1 THEN << "s" >> ELSE <<>>

\* result.trim()
RECURSIVE TrimString(_)
TrimString(string) ==
  IF string # <<>> /\ Head(string) = " " THEN TrimString(Tail(string))
  ELSE IF string # <<>> /\ string[Len(string)] = " "
  THEN TrimString(SubSeq(string, 1, Len(string) - 1))
  ELSE string

FormatTotalDuration(seconds) ==
  LET days == seconds \div (3600 * 24)
      afterDays == seconds % (3600 * 24)
      hours == afterDays \div 3600
      afterHours == afterDays % 3600
      minutes == afterHours \div 60
      r1 == IF days > 0
            THEN DecimalString(days) \o << " ", "d", "a", "y" >>
                   \o PluralSuffix(days) \o << " " >>
            ELSE <<>>
      r2 == IF hours > 0
            THEN r1 \o DecimalString(hours) \o << " ", "h", "o", "u", "r" >>
                   \o PluralSuffix(hours) \o << " " >>
            ELSE r1
      r3 == IF minutes > 0
            THEN r2 \o DecimalString(minutes) \o << " ", "m", "i", "n" >>
                   \o PluralSuffix(minutes)
            ELSE r2
  IN  TrimString(r3)

\* The durations tried: up to MaxDays days, with no, one, two or 23 hours,
\* no, one, two or 59 minutes and no, one or 59 seconds more.
Durations ==
  { d * 86400 + h * 3600 + m * 60 + s :
      d \in 0..MaxDays, h \in {0, 1, 2, 23}, m \in {0, 1, 2, 59}, s \in {0, 1, 59} }

InitDuration ==
  /\ Is(Constructed)
  /\ steps = 0
  /\ colors = <<>>
  /\ markdown = <<>>
  /\ parsed = <<>>
  /\ totalSeconds \in Durations
  /\ formatted = <<>>

CallFormatTotalDuration ==
  /\ formatted = <<>>
  /\ formatted' = << FormatTotalDuration(totalSeconds) >>
  /\ UNCHANGED << appVars, steps, colors, markdown, parsed, totalSeconds >>

NextDuration == CallFormatTotalDuration

SpecDuration == InitDuration /\ [][NextDuration]_vars

-----------------------------------------------------------------------------
(* Claims *)

\* The MapParams of the directions request issued last.
LastDirectionsQuery ==
  LET asked == {k \in DOMAIN queries : "stops" \in DOMAIN queries[k]}
  IN  queries[CHOOSE k \in asked : \A j \in asked : j <= k]

\* The itinerary shown was built for the stops of the given MapParams.
BuiltFor(params) ==
  /\ Len(itineraryData.stops) = Len(params.stops)
  /\ \A k \in DOMAIN itineraryData.stops :
       itineraryData.stops[k].name = StopName(params.stops[k])

\* A later handleMapQuery call has cleared the map since the request was made.
ClearedSince(request) == request.query < Len(queries)

\* C1, the frame part: the answer to a directions request made before the
\* map was cleared again changes nothing of the itinerary, the map or the chat.
StaleAnswerChangesNothing ==
  \A request \in BagToSet(routePending) :
    (CopiesIn(request, routePending') < CopiesIn(request, routePending)
       /\ ClearedSince(request))
    => UNCHANGED << itineraryData, stopMarkers, routePolylines,
                    backgroundRoutePolyline, messages, mapChildren,
                    currentAnimationId, loops >>

\* C1, the consequence: an itinerary on display belongs to the directions
\* request issued last.
ItineraryOfLastRequest ==
  itineraryData # Null => BuiltFor(LastDirectionsQuery)

\* C1: a directions response is applied only if no other map query cleared
\* the map since its request was issued; a stale response changes nothing, and
\* a non-null itineraryData always belongs to the most recent directions request.
C1_StaleDirectionsIgnored ==
  [] ItineraryOfLastRequest /\ [][StaleAnswerChangesNothing]_vars

\* C1's case: loadMap's request was superseded by a second directions query
\* and answered afterwards (no error turn, and both requests answered with
\* the counter at 3 leave no other order), the second route is on display.
C1_Witness ==
  /\ Len(queries) = 2
  /\ itineraryData # Null
  /\ routePending = EmptyBag
  /\ messages = <<>>
  /\ currentAnimationId = 3

\* The number of suspended loops started with the given id.
LoopsOf(id) ==
  LET S == {l \in BagToSet(loops) : l.animationId = id}
      RECURSIVE Count(_)
      Count(T) == IF T = {} THEN 0
                  ELSE LET l == CHOOSE x \in T : TRUE
                       IN  CopiesIn(l, loops) + Count(T \ {l})
  IN  Count(S)

\* C2, the state part: at most one loop runs under the current id.
OneLiveLoop == LoopsOf(currentAnimationId) <= 1

\* C2, the step part: the counter never goes back, and when the timer of a
\* loop started with an earlier id fires the loop ends: it draws nothing and
\* does not start again.
StaleLoopEnds ==
  /\ currentAnimationId' >= currentAnimationId
  /\ \A l \in BagToSet(loops) :
       (l.animationId # currentAnimationId
          /\ CopiesIn(l, loops') < CopiesIn(l, loops))
       => /\ loops' = loops (-) One(l)
          /\ UNCHANGED << routePolylines, mapChildren, itineraryData >>

\* C2: animation loops never overlap: at most one _runAnimationLoop instance
\* draws, and once currentAnimationId has been incremented a loop started with
\* an earlier id draws no further polyline and does not restart itself.
C2_LoopsNeverOverlap == [] OneLiveLoop /\ [][StaleLoopEnds]_vars

\* C2's case: only loadMap's query was made, the slider was moved once
\* (counter 3), and the loop started before that is gone: its timer fired
\* while the new loop was running.
C2_Witness ==
  /\ Len(queries) = 1
  /\ currentAnimationId = 3
  /\ animationSpeed < StoppedSpeed
  /\ BagCardinality(loops) = 1
  /\ LoopsOf(currentAnimationId) = 1
  /\ \E l \in BagToSet(loops) : l.next > 2

\* A marker of a view-location query (stop markers carry a style).
IsLocationMarker(e) == e.kind = "marker" /\ "style" \notin DOMAIN e

\* The location markers on the map, with their numbers of copies.
LocationMarkersOnMap ==
  LET S == {e \in BagToSet(mapChildren) : IsLocationMarker(e)}
      RECURSIVE Count(_)
      Count(T) == IF T = {} THEN 0
                  ELSE LET e == CHOOSE x \in T : TRUE
                       IN  CopiesIn(e, mapChildren) + Count(T \ {e})
  IN  Count(S)

\* C3: the map is never cluttered with results of old queries: it holds at
\* most one location marker, that marker is this.marker, and no marker of a
\* view-location query that a later query superseded is on the map.
C3_NoOldMarkers ==
  /\ LocationMarkersOnMap <= 1
  /\ \A e \in BagToSet(mapChildren) :
       IsLocationMarker(e) => (e = marker /\ e.createdFor = Len(queries))

\* The coloured leg polylines on the map, with their numbers of copies.
LegPolylinesOnMap ==
  LET S == {e \in BagToSet(mapChildren) :
              e.kind = "polyline" /\ e # backgroundRoutePolyline}
  IN  [e \in S |-> CopiesIn(e, mapChildren)]

\* The route is drawn statically: one coloured polyline per leg, in the
\* leg's colour along the leg's path, on the map and in the leg's field.
DrawnStatically ==
  /\ Len(routePolylines) = Len(itineraryData.legs)
  /\ \A i \in DOMAIN itineraryData.legs :
       LET leg == itineraryData.legs[i]
       IN  /\ leg.polyline = routePolylines[i]
           /\ leg.polyline.kind = "polyline"
           /\ leg.polyline.coordinates = << leg.rawLegData >>
           /\ leg.polyline.strokeColor = leg.color
  /\ BagCardinality(LegPolylinesOnMap) = Len(itineraryData.legs)
  /\ \A i \in DOMAIN routePolylines : BagIn(routePolylines[i], mapChildren)

\* C4, the step part: with an itinerary and the slider at 100, a loop whose
\* timer fires draws nothing and schedules nothing.
StoppedLoopEnds ==
  (itineraryData # Null /\ animationSpeed = StoppedSpeed)
  => \A l \in BagToSet(loops) :
       CopiesIn(l, loops') < CopiesIn(l, loops)
       => /\ loops' = loops (-) One(l)
          /\ UNCHANGED << routePolylines, mapChildren, itineraryData >>

\* C4: animation speed 100 means stopped: whenever an itinerary is present
\* and animationSpeed is 100, no loop runs under the current id, a loop that
\* wakes up draws nothing and does not reschedule itself, and the route is
\* drawn with exactly one coloured polyline per leg, stored in that leg's
\* polyline field.
C4_SpeedHundredIsStopped ==
  /\ [] ((itineraryData # Null /\ animationSpeed = StoppedSpeed)
           => (LoopsOf(currentAnimationId) = 0 /\ DrawnStatically))
  /\ [][StoppedLoopEnds]_vars

\* C4's case: the slider was moved to 100 while the first route was being
\* animated (a loop of that time is still suspended) and a second directions
\* query has been answered since.
C4_Witness ==
  /\ itineraryData # Null
  /\ animationSpeed = StoppedSpeed
  /\ Len(queries) = 2
  /\ BuiltFor(queries[2])
  /\ loops # EmptyBag

\* The delay is the claimed total divided by the number of legs:
\* delay * legCount * 99 = 99 * 2000 * legCount - s * (2000 * legCount - 1000).
IsClaimedDelay(delay, legCount, s) ==
  /\ delay.d > 0
  /\ delay.n * legCount * 99
       = delay.d * (99 * 2000 * legCount - s * (2000 * legCount - 1000))

\* C5, the arithmetic: for 1..14 legs the total is 2000 ms per leg at
\* speed 0, 1000 ms at speed 99, and never grows from one speed to the next.
DurationFallsWithSpeed ==
  \A legCount \in 1..(MaxLegs + 12) :
    /\ NumDiv(TotalDuration(legCount, 0), Num(legCount)) = Num(2000)
    /\ TotalDuration(legCount, 99) = Num(1000)
    /\ \A s \in 0..98 :
         NumLeq(TotalDuration(legCount, s + 1), TotalDuration(legCount, s))

\* C5, the state part: the loop running under the current id waits the
\* claimed delay for the slider's value.  The arithmetic depends on no
\* state; it is evaluated in the states before the first query is handled.
DelayAsClaimed ==
  /\ \A l \in BagToSet(loops) :
       l.animationId = currentAnimationId
       => /\ animationSpeed \in 0..99
          /\ IsClaimedDelay(l.delayPerLeg, Len(l.legsData), animationSpeed)
          /\ animationSpeed = 0 => l.delayPerLeg = Num(2000)
          /\ animationSpeed = 99
               => NumMul(l.delayPerLeg, Num(Len(l.legsData))) = Num(1000)
  /\ currentAnimationId = 0 => DurationFallsWithSpeed

\* C5, the step part: a loop instance keeps the delay it started with.
DelayComputedOnce ==
  \A l \in BagToSet(loops) : \A m \in BagToSet(loops') :
    m.animationId = l.animationId => m.delayPerLeg = l.delayPerLeg

\* C5: one animation pass lasts 2000*legCount - (s/99)*(2000*legCount - 1000)
\* ms for s in 0..99: 2000 ms per leg at s = 0, 1000 ms in total at s = 99,
\* never increasing in s; every leg of a loop instance waits the same delay
\* totalDuration/legCount, computed once when the loop starts.
C5_AnimationDuration == [] DelayAsClaimed /\ [][DelayComputedOnce]_vars

\* C5's case: a loop started at speed 50 over two legs has waited its delay
\* after the first leg and drawn the second.
C5_Witness ==
  /\ animationSpeed = 50
  /\ \E l \in BagToSet(loops) :
       /\ l.animationId = currentAnimationId
       /\ Len(l.legsData) = 2
       /\ l.next = 3
       /\ Len(routePolylines) = 2

\* C6: _generateColorSpectrum(steps) returns exactly `steps` colours for
\* every steps >= 1, so spectrumColors[index] is defined for every leg index.
C6_SpectrumLength ==
  colors # <<>> => (Len(colors) = steps /\ DOMAIN colors = 1..steps)

\* C6's case: the spectrum of the default itinerary's fourteen legs.
C6_Witness == steps = 14 /\ Len(colors) = 14

\* C7 as claimed: for every steps >= 2 the first colour is green, the last
\* red and the colour at index floor((steps-1)/2) blue; one step is green.
C7_GreenBlueRed ==
  colors # <<>>
  => /\ steps >= 2 => /\ colors[1] = Green
                      /\ colors[Len(colors)] = Red
                      /\ colors[((steps - 1) \div 2) + 1] = Blue
     /\ steps = 1 => colors = << Green >>

\* C7, amended: for every steps >= 3 the first colour is green, the last red
\* and the colour at index floor((steps-1)/2) blue; for steps = 2 the colours
\* are blue then red (index 0 is the midpoint), and for steps = 1 the single
\* colour is green.
C7_GreenBlueRedFromThree ==
  colors # <<>>
  => /\ steps >= 3 => /\ colors[1] = Green
                      /\ colors[Len(colors)] = Red
                      /\ colors[((steps - 1) \div 2) + 1] = Blue
     /\ steps = 2 => colors = << Blue, Red >>
     /\ steps = 1 => colors = << Green >>

\* C7's case: the spectrum of two legs, which starts at blue.
C7_Witness == steps = 2 /\ colors = << Blue, Red >>

\* The stop markers on the map, with their numbers of copies.
StopMarkersOnMap ==
  LET S == {e \in BagToSet(mapChildren) :
              e.kind = "marker" /\ "style" \in DOMAIN e}
  IN  [e \in S |-> CopiesIn(e, mapChildren)]

\* C8: whenever itineraryData is non-null it has L >= 1 legs, those of the
\* route of the request it was built for, and L + 1 stops in route order;
\* the origin has colour spectrum[0], stop i+1 the colour of leg i, and there
\* are exactly L + 1 stop markers on the map, those of the stops.
C8_ItineraryShape ==
  itineraryData # Null
  => LET L == Len(itineraryData.legs)
         stops == itineraryData.stops
         legs == itineraryData.legs
         spectrum == GenerateColorSpectrum(L)
     IN  /\ L >= 1
         /\ L = Len(LastDirectionsQuery.stops) - 1
         /\ Len(stops) = L + 1
         /\ BuiltFor(LastDirectionsQuery)
         /\ \A i \in 1..L :
              /\ legs[i].rawLegData.index = i
              /\ legs[i].color = spectrum[i]
              /\ stops[i].location = legs[i].rawLegData.start_location
              /\ stops[i + 1].location = legs[i].rawLegData.end_location
              /\ stops[i + 1].color = legs[i].color
         /\ stops[1].color = spectrum[1]
         /\ Len(stopMarkers) = L + 1
         /\ BagCardinality(StopMarkersOnMap) = L + 1
         /\ \A k \in 1..(L + 1) :
              /\ stops[k].marker = stopMarkers[k]
              /\ stops[k].marker.label.number = k
              /\ stops[k].marker.style.color = CssColorToRgb(stops[k].color)
              /\ BagIn(stopMarkers[k], mapChildren)

\* C8's case: a route of two legs answered for a second directions query,
\* after the first itinerary and its markers were cleared.
C8_Witness ==
  /\ itineraryData # Null
  /\ Len(queries) = 2
  /\ BuiltFor(queries[2])
  /\ Len(itineraryData.legs) = 2
  /\ itineraryData.stops[2].color # itineraryData.stops[3].color

\* The accommodation costs of the directions request issued last.
LastCosts ==
  IF "accommodationCosts" \in DOMAIN LastDirectionsQuery
  THEN LastDirectionsQuery.accommodationCosts
  ELSE <<>>

\* C9: accommodation costs are aligned to the stops from the second stop on:
\* with costs [c_1..c_m] stop k (0-based, k >= 1) gets c_k, a stop past the
\* costs and the origin get none, and totalAccommodationCost is the sum of
\* all the costs provided, 0 when there are none.
C9_CostsAligned ==
  itineraryData # Null
  => /\ BuiltFor(LastDirectionsQuery)
     /\ "accommodationCost" \notin DOMAIN itineraryData.stops[1]
     /\ \A k \in 1..(Len(itineraryData.stops) - 1) :
          itineraryData.stops[k + 1].accommodationCost
            = IF k <= Len(LastCosts) THEN << LastCosts[k] >> ELSE <<>>
     /\ itineraryData.totalAccommodationCost = SumSeq(LastCosts)
     /\ LastCosts = <<>> => itineraryData.totalAccommodationCost = 0

\* C9's case: a query of three stops with three costs: the stops after the
\* origin take the first two, the total counts all three.
C9_Witness ==
  /\ itineraryData # Null
  /\ Len(queries) = 2
  /\ Len(itineraryData.stops) = 3
  /\ Len(LastCosts) = 3
  /\ itineraryData.stops[3].accommodationCost = << LastCosts[2] >>
  /\ itineraryData.totalAccommodationCost = LastCosts[1] + LastCosts[2] + LastCosts[3]

\* C10: with an itinerary, totalFuelCost is the sum of the legs' fuelCost
\* and totalDistance the sum of the legs' distanceValue, after any directions
\* queries and MPG edits; when travelMode is not DRIVING every fuelCost and
\* the total are 0 and an MPG edit changes nothing of the itinerary.
C10_TotalsAreSums ==
  itineraryData # Null
  => LET legs == itineraryData.legs
     IN  /\ itineraryData.totalFuelCost
              = NumSum([i \in DOMAIN legs |-> legs[i].fuelCost])
         /\ itineraryData.totalDistance
              = SumSeq([i \in DOMAIN legs |-> legs[i].distanceValue])
         /\ itineraryData.travelMode # "DRIVING"
              => /\ \A i \in DOMAIN legs : legs[i].fuelCost = Zero
                 /\ itineraryData.totalFuelCost = Zero
                 /\ \A value \in MpgValues \cup {DefaultMpg} :
                      LET edited == HandleMpgInput(This, value)
                      IN  /\ edited.itineraryData = itineraryData
                          /\ edited.mapChildren = mapChildren
                          /\ edited.routePolylines = routePolylines

\* C10's case: a driving itinerary of two legs whose costs were recalculated
\* for 25 miles per gallon: 3,000,000 m * 0.000621371 / 25 * 3.5.
C10_Witness ==
  /\ itineraryData # Null
  /\ itineraryData.travelMode = "DRIVING"
  /\ mpg = 25
  /\ Len(itineraryData.legs) = 2
  /\ itineraryData.totalDistance = 3000000
  /\ itineraryData.totalFuelCost = Rat(3 * 621371 * 7, 1000 * 25 * 2)

-----------------------------------------------------------------------------
(* Map tour *)

\* The indices of the views that have the id of the dragged view.
DraggedIndices ==
  IF draggedItemId = <<>> THEN {}
  ELSE {i \in DOMAIN savedViews : savedViews[i].id = draggedItemId[1]}

\* The list after the drop has the dragged view, which was at index i, at
\* index j, and the other views in the order they had.
MovedTo(i, j) ==
  /\ Len(savedViews') = Len(savedViews)
  /\ savedViews'[j] = savedViews[i]
  /\ RemoveAt(savedViews', j) = RemoveAt(savedViews, i)

\* C14: a drop on the view at index j moves the dragged view to index j and
\* keeps the order of all other views; it changes nothing when no drag is
\* in progress, when the dragged view is the target, or when the dragged
\* view is not in the list.
C14_DropIsPermutation ==
  [][\A j \in DOMAIN savedViews :
       DropOn(j) =>
         IF DraggedIndices = {} \/ j \in DraggedIndices
         THEN savedViews' = savedViews
         ELSE \A i \in DraggedIndices : MovedTo(i, j)]_vars

\* The file exportTour writes in the current state.
ExportedNow == LET e == ExportTour(This) IN e.downloads[Len(e.downloads)]

\* The state after that file is imported, the user confirming.
ExportedAndImported == FileLoaded(ExportTour(This), ExportedNow, TRUE)

\* C15: with a view saved, exporting the tour and importing the file gives
\* the playbackDelay, playbackFlyoverTime, loopTour and savedViews (order
\* and ids) of before, and validateTourFile accepts every exported file.
C15_ExportImportRoundTrip ==
  /\ \A i \in DOMAIN downloads :
       ValidateTourFile(JsonParse(downloads[i])) = "true"
  /\ Len(savedViews) > 0 =>
       /\ ValidateTourFile(JsonParse(ExportedNow)) = "true"
       /\ ExportedAndImported.playbackDelay = playbackDelay
       /\ ExportedAndImported.playbackFlyoverTime = playbackFlyoverTime
       /\ ExportedAndImported.loopTour = loopTour
       /\ ExportedAndImported.savedViews = savedViews

\* The settings and views a rejected import must leave alone.
TourSettings ==
  << savedViews, nextViewId, playbackDelay, playbackFlyoverTime, loopTour,
     activeRightSidebarTab >>

\* The import is one the claim calls rejected: the text is no JSON, the
\* parsed value fails validateTourFile, or the user declines the confirm
\* that is asked when views are saved.
Rejected(text, confirmed) ==
  \/ text = NotJson
  \/ ValidateTourFile(JsonParse(text)) # "true"
  \/ Len(savedViews) > 0 /\ ~confirmed

\* The files that are imported.
ImportedFiles ==
  {TourFile, OldTourFile, HugeDelayFile} \cup BadFiles
    \cup {downloads[i] : i \in DOMAIN downloads}

\* C16: the import of a rejected file changes none of savedViews,
\* nextViewId, playbackDelay, playbackFlyoverTime, loopTour and
\* activeRightSidebarTab.
C16_RejectedImportChangesNothing ==
  [][\A text \in ImportedFiles, confirmed \in BOOLEAN :
       (Rejected(text, confirmed) /\ Becomes(FileLoaded(This, text, confirmed)))
         => UNCHANGED TourSettings]_vars

\* A file was rejected after a tour had been imported, and the tour is there.
C16_Witness ==
  /\ Len(alerts) = 2
  /\ alerts[1] = "Tour imported successfully!"
  /\ alerts[2] = "Failed to import tour"
  /\ savedViews = TourFile.views.items
  /\ playbackDelay = TourFile.playbackDelay

\* The flyCameraTo call that flies to a view in the given milliseconds.
FlightTo(view, durationMillis) ==
  [endCamera |-> [center |-> view.center, heading |-> view.heading,
                  tilt |-> view.tilt, range |-> view.range],
   durationMillis |-> durationMillis]

\* The last n entries of a sequence.
LastOf(s, n) == SubSeq(s, Len(s) - n + 1, Len(s))

\* The one playTour call that runs, while one runs.
OnePlayer ==
  /\ isPlayingTour <=> tourPlayers # EmptyBag
  /\ \A p \in BagToSet(tourPlayers) : tourPlayers = One(p)

\* A running playTour call is at one of the saved views and waits the
\* flyover time, or after it the playback delay.
PlayerWaits ==
  \A p \in BagToSet(tourPlayers) :
    /\ p.views = savedViews
    /\ p.next \in 1..Len(savedViews)
    /\ p.at \in {"flyover", "delay"}
    /\ p.wait = IF p.at = "flyover" THEN NumMul(playbackFlyoverTime, Num(1000))
                ELSE NumMul(playbackDelay, Num(1000))

\* The flyToView calls of the running playTour call are those for the
\* views up to the one it is at, in list order.
CalledInOrder ==
  \A p \in BagToSet(tourPlayers) :
    /\ p.next <= Len(flyToViewCalls)
    /\ LastOf(flyToViewCalls, p.next) = SubSeq(savedViews, 1, p.next)

\* The camera has flown to the views up to the one the tour is at, in list
\* order, each flight taking the flyover time.
FlownInOrder ==
  \A p \in BagToSet(tourPlayers) :
    /\ p.next <= Len(cameraFlights)
    /\ LastOf(cameraFlights, p.next) =
         [i \in 1..p.next |->
            FlightTo(savedViews[i], NumMul(playbackFlyoverTime, Num(1000)))]

\* The steps of a tour, counted in the sequence flown of what it has flown
\* to: Play makes the first flight; the flyover wait is followed by the
\* delay wait at the same view, with no flight; the delay wait by the flight
\* to the next view, or after the last view by the end of the tour, with no
\* flight and isPlayingTour = false.
TourStep(flown, flownAfter) ==
  /\ tourPlayers = EmptyBag /\ tourPlayers' # EmptyBag =>
       /\ Len(flownAfter) = Len(flown) + 1
       /\ \A q \in BagToSet(tourPlayers') : q.next = 1 /\ q.at = "flyover"
  /\ \A p \in BagToSet(tourPlayers) :
       IF p.at = "flyover"
       THEN /\ flownAfter = flown
            /\ tourPlayers' = One([p EXCEPT !.at = "delay",
                                            !.wait = NumMul(playbackDelay, Num(1000))])
       ELSE IF p.next < Len(savedViews)
       THEN /\ Len(flownAfter) = Len(flown) + 1
            /\ \A q \in BagToSet(tourPlayers') :
                 q.next = p.next + 1 /\ q.at = "flyover"
            /\ tourPlayers' # EmptyBag
       ELSE /\ flownAfter = flown
            /\ tourPlayers' = EmptyBag
            /\ ~isPlayingTour'

\* playTour called while a tour plays or with no saved view does nothing.
PlayIgnored == (isPlayingTour \/ Len(savedViews) = 0) => PlayTour(This) = This

\* C18 as stated: without looping and with no other action during playback,
\* the camera flies to every saved view once, in list order, the flyover
\* time and then the playback delay are waited after each flight, and the
\* tour ends with isPlayingTour = false; playTour does nothing when a tour
\* plays or no view is saved.
C18_CameraFliesToEveryView ==
  /\ [](OnePlayer /\ PlayerWaits /\ FlownInOrder /\ PlayIgnored)
  /\ [][TourStep(cameraFlights, cameraFlights')]_vars
  /\ (isPlayingTour ~> ~isPlayingTour)

\* The camera flies where flyToView is called, if the map is there.
FlownWhereCalled ==
  cameraFlights' # cameraFlights =>
    /\ mapInitialized
    /\ flyToViewCalls' # flyToViewCalls
    /\ cameraFlights' =
         Append(cameraFlights,
                FlightTo(flyToViewCalls'[Len(flyToViewCalls')],
                         NumMul(playbackFlyoverTime, Num(1000))))

\* C18, amended: without looping and with no other action during playback,
\* playTour calls flyToView for every saved view once, in list order, waits
\* the flyover time and then the playback delay after each call, and ends
\* with isPlayingTour = false; the camera flies to each of these views when
\* the map has been initialised, and not at all when it has not; playTour
\* does nothing when a tour plays or no view is saved.
C18_EveryViewVisitedOnce ==
  /\ [](OnePlayer /\ PlayerWaits /\ CalledInOrder /\ PlayIgnored)
  /\ [](mapInitialized => FlownInOrder)
  /\ [][TourStep(flyToViewCalls, flyToViewCalls') /\ FlownWhereCalled]_vars
  /\ (isPlayingTour ~> ~isPlayingTour)

\* A tour of three views has been played to its end on the loaded map.
C18_Witness ==
  /\ mapInitialized
  /\ ~isPlayingTour /\ tourPlayers = EmptyBag
  /\ Len(savedViews) = 3
  /\ Len(cameraFlights) = 3
  /\ flyToViewCalls = savedViews

\* While isPlayingTour stays false, flyToView is not called and the camera
\* does not fly, and the playTour calls that are suspended only end.
StoppedTourOnlyEnds ==
  (~isPlayingTour /\ ~isPlayingTour') =>
    /\ flyToViewCalls' = flyToViewCalls
    /\ cameraFlights' = cameraFlights
    /\ \/ tourPlayers' = tourPlayers
       \/ \E p \in BagToSet(tourPlayers) : tourPlayers' = tourPlayers (-) One(p)

\* With isPlayingTour false, the timer of a suspended playTour call ends
\* the call when it fires: the call does not wait again.
StoppedCallEnds ==
  ~isPlayingTour =>
    \A p \in BagToSet(tourPlayers) :
      /\ TourResumed(This, p).tourPlayers = tourPlayers (-) One(p)
      /\ ~TourResumed(This, p).isPlayingTour

\* C19: after Stop has set isPlayingTour to false, and as long as Play is
\* not pressed again, the running playTour call makes no further flyToView
\* call and ends when the timer it waits for fires, whether the tour loops
\* or not.
C19_StopEndsPlayback ==
  /\ []StoppedCallEnds
  /\ [][StoppedTourOnlyEnds]_vars

\* A looping tour of three views was stopped during its first flight and
\* its playTour call has ended.
C19_Witness ==
  /\ loopTour
  /\ ~isPlayingTour /\ tourPlayers = EmptyBag
  /\ Len(savedViews) = 3
  /\ Len(flyToViewCalls) = 1

\* What the claim calls the tour, and what it calls the route.
TourVars ==
  << savedViews, nextViewId, playbackDelay, playbackFlyoverTime, loopTour,
     isPlayingTour >>

RouteVars == << itineraryData, currentAnimationId, routePolylines >>

\* A step of the route: a map query, an answer of the geocoder or of the
\* directions service, the speed slider, the MPG field, an animation timer.
RouteEvent ==
  \/ ViewLocationQuery
  \/ DirectionsQuery
  \/ GeocodeResponse
  \/ DirectionsResponse
  \/ AnimationSpeedChange
  \/ MpgInput
  \/ AnimationTimer

\* A step of the tour: saving a view, deleting, renaming, reordering,
\* clearing, importing, playing and stopping.
TourEvent ==
  \/ SaveViewClick
  \/ SaveViewResponse
  \/ DeleteClick
  \/ NameDoubleClick
  \/ Rename
  \/ DragStart
  \/ Drop
  \/ DragEnd
  \/ ClearClick
  \/ ImportOf({OldTourFile, NotJson})
  \/ PlayClick
  \/ StopClick
  \/ TourTimer

\* _clearMapElements leaves the tour as it is.
ClearingKeepsTour ==
  LET cleared == ClearMapElements(This)
  IN  /\ cleared.savedViews = savedViews
      /\ cleared.nextViewId = nextViewId
      /\ cleared.playbackDelay = playbackDelay
      /\ cleared.playbackFlyoverTime = playbackFlyoverTime
      /\ cleared.loopTour = loopTour
      /\ cleared.isPlayingTour = isPlayingTour

\* C17: map queries and their answers, _clearMapElements, the speed slider
\* and the MPG field leave savedViews, nextViewId, playbackDelay,
\* playbackFlyoverTime, loopTour and isPlayingTour unchanged; saving,
\* deleting, renaming, reordering, clearing, importing and playing views
\* leave itineraryData, currentAnimationId and the route polylines unchanged.
C17_TourIndependentOfRoute ==
  /\ []ClearingKeepsTour
  /\ [][(RouteEvent => UNCHANGED TourVars) /\ (TourEvent => UNCHANGED RouteVars)]_vars

\* A location query has cleared the itinerary while a tour was playing, and
\* the tour still plays its three views.
C17_Witness ==
  /\ Len(queries) = 2
  /\ "location" \in DOMAIN queries[2]
  /\ itineraryData = Null
  /\ isPlayingTour
  /\ Len(savedViews) = 3

-----------------------------------------------------------------------------
(* The markdown-table parser *)

\* The lines of the text that are not blank.
NonEmptyLines == LET NotBlank(line) == ~IsBlank(line) IN SelectSeq(markdown, NotBlank)

\* A data row that counts: it starts with '|' and has at least 8 columns.
QualifyingRow(line) == StartsWithPipe(line) /\ Len(line) >= 8

\* The qualifying rows among the lines after the first two, in row order.
QualifyingRows ==
  SelectSeq(SubSeq(NonEmptyLines, 3, Len(NonEmptyLines)), QualifyingRow)

\* The text is a table as the claim asks for.
IsItineraryTable ==
  /\ Len(NonEmptyLines) >= 3
  /\ IncludesPipe(NonEmptyLines[1])
  /\ IncludesDashes(NonEmptyLines[2])
  /\ Len(QualifyingRows) >= 2

\* C20: _parseItineraryTable returns null unless the text has at least 3
\* non-empty lines, a first line with '|', a second with '--' and at least
\* two data rows that start with '|' and have at least 8 columns; a result
\* has one stop name;;;query per qualifying row, in row order, as many
\* dates, and one accommodation cost fewer.
C20_ParserShape ==
  parsed # <<>> =>
    IF ~IsItineraryTable THEN parsed[1] = Null
    ELSE /\ parsed[1] # Null
         /\ Len(parsed[1].stops) = Len(QualifyingRows)
         /\ \A i \in DOMAIN QualifyingRows :
              /\ DOMAIN parsed[1].stops[i] = {"name", "query"}
              /\ parsed[1].stops[i].name = StopNameForLabel(QualifyingRows[i][4])
         /\ Len(parsed[1].dates) = Len(QualifyingRows)
         /\ Len(parsed[1].accommodationCosts) = Len(QualifyingRows) - 1

\* A text of five lines with a row that does not count between two that do
\* has been parsed into two stops.
C20_Witness ==
  /\ parsed # <<>>
  /\ parsed[1] # Null
  /\ Len(NonEmptyLines) = 5
  /\ Len(parsed[1].stops) = 2
  /\ ~QualifyingRow(NonEmptyLines[4])
  /\ parsed[1].accommodationCosts = << 120 >>

-----------------------------------------------------------------------------
(* Chat *)

\* The handler call returns in this step.
Returns(call) == handlerCalls' = handlerCalls (-) One(call)

\* A call that returns leaves chatState IDLE, and one whose stream threw has
\* appended one 'error' message, and nothing else, since the throw.
ReturnResets ==
  \A call \in BagToSet(handlerCalls) :
    Returns(call) =>
      /\ chatState' = "IDLE"
      /\ call.throws => messages' = Append(messages, "error")

\* C11: every invocation of the send-message handler ends with chatState =
\* IDLE, whether the stream ends normally, yields no parts or throws at any
\* point, and when it throws exactly one 'error' message is appended before
\* the reset.
C11_HandlerResetsChatState ==
  /\ [][ReturnResets]_vars
  /\ [](chatState # "IDLE" => handlerCalls # EmptyBag)
  /\ (handlerCalls # EmptyBag) ~> (handlerCalls = EmptyBag /\ chatState = "IDLE")

\* A stream has thrown after a part with a function call and text, the map
\* loaded: the call has returned, the last message is the error of the
\* handler and the chat state is IDLE again.
C11_Witness ==
  /\ mapInitialized
  /\ handlerCalls = EmptyBag
  /\ chatState = "IDLE"
  /\ Len(messages) = 4
  /\ messages[Len(messages)] = "error"
  /\ messages[1] = "user"

\* The text parses as an itinerary table of at least two stops.
ParsesAsItinerary(text) ==
  LET result == ParseItineraryTable(TrimText(text))
  IN  result # Null /\ Len(result.stops) >= 2

\* sendMessageAction takes a table from the input field in this step.
SendsTable ==
  inputMessage # <<>> /\ inputMessage' = <<>> /\ ParsesAsItinerary(inputMessage)

\* The 'user' messages among msgs.
UserMessages(msgs) == Cardinality({i \in DOMAIN msgs : msgs[i] = "user"})

\* C12: a user message that parses as an itinerary table of at least two
\* stops is not sent to the AI: sendMessageHandler is not invoked for it, and
\* the user message is appended to the chat exactly once.
C12_TableNotSentToAi ==
  [][SendsTable =>
       /\ handlerCalls' = handlerCalls
       /\ chatState' = "IDLE"
       /\ UserMessages(messages') = UserMessages(messages) + 1]_vars

\* A table has been sent with the handler installed and the map loaded: the
\* chat has the user's message and the acknowledgement, and no call is open.
C12_Witness ==
  /\ sendMessageHandler
  /\ mapInitialized
  /\ messages = << "user", "assistant" >>
  /\ handlerCalls = EmptyBag
  /\ Len(queries) = 2
  /\ "dates" \in DOMAIN queries[2]

\* The MapParams of the table in the input field.
TableParams ==
  LET result == ParseItineraryTable(TrimText(inputMessage))
  IN  [stops |-> result.stops,
       accommodationCosts |-> result.accommodationCosts,
       dates |-> result.dates]

\* C13: every user message that parses as an itinerary table of at least
\* two stops has handleMapQuery called exactly once, with the parsed stops,
\* dates and accommodation costs, and sendMessageAction ends with chatState
\* = IDLE, whether a sendMessageHandler is installed or not.
C13_TableAlwaysPlotted ==
  [][SendsTable =>
       /\ queries' = Append(queries, TableParams)
       /\ chatState' = "IDLE"]_vars

\* The same where a sendMessageHandler is installed.
TablePlottedWithHandler ==
  [][SendsTable /\ sendMessageHandler =>
       /\ queries' = Append(queries, TableParams)
       /\ chatState' = "IDLE"]_vars

-----------------------------------------------------------------------------
(* The formatting of durations *)

\* The characters of the words of the listing.
Day == << "d", "a", "y" >>
Hour == << "h", "o", "u", "r" >>
Min == << "m", "i", "n" >>

\* The digits of a number below 1000, written out.
Digits(n) ==
  LET d(k) == << "0", "1", "2", "3", "4", "5", "6", "7", "8", "9" >>[k + 1]
  IN  IF n < 10 THEN << d(n) >>
      ELSE IF n < 100 THEN << d(n \div 10), d(n % 10) >>
      ELSE << d(n \div 100), d((n \div 10) % 10), d(n % 10) >>

\* A component of the listing: the number, a space, the unit, and 's' exactly
\* when the number is greater than 1.
Component(n, unit) ==
  Digits(n) \o << " " >> \o unit \o (IF n > 1 THEN << "s" >> ELSE <<>>)

\* Strings joined by single spaces.
RECURSIVE Joined(_)
Joined(strings) ==
  IF strings = <<>> THEN <<>>
  ELSE IF Len(strings) = 1 THEN strings[1]
  ELSE strings[1] \o << " " >> \o Joined(Tail(strings))

\* The components of d days, h hours and m minutes that are not zero, in
\* the order days, hours, minutes.
Listing(d, h, m) ==
  Joined((IF d > 0 THEN << Component(d, Day) >> ELSE <<>>)
         \o (IF h > 0 THEN << Component(h, Hour) >> ELSE <<>>)
         \o (IF m > 0 THEN << Component(m, Min) >> ELSE <<>>))

\* C21: _formatTotalDuration(totalSeconds) for a non-negative integer
\* decomposes it into days d, hours h < 24 and minutes m < 60 with
\* d*86400 + h*3600 + m*60 <= totalSeconds < d*86400 + h*3600 + m*60 + 60,
\* lists only the components that are not zero in the order days, hours,
\* minutes, with an 's' exactly when the component is greater than 1, and
\* returns the empty string when totalSeconds < 60.
C21_DurationListing ==
  formatted # <<>> =>
    /\ \E d \in 0..(MaxDays + 1), h \in 0..23, m \in 0..59 :
         /\ d * 86400 + h * 3600 + m * 60 <= totalSeconds
         /\ totalSeconds < d * 86400 + h * 3600 + m * 60 + 60
         /\ formatted[1] = Listing(d, h, m)
    /\ totalSeconds < 60 => formatted[1] = <<>>

\* Two days, one hour, 59 minutes and a second have been formatted: a
\* plural, a singular and a plural.
C21_Witness ==
  /\ totalSeconds = 2 * 86400 + 3600 + 59 * 60 + 1
  /\ formatted = << Listing(2, 1, 59) >>
  /\ Len(formatted[1]) = 21

====
